---- MODULE Spec2Model ----
(***************************************************************************)
(* A model of the workflow engine of visual_python_workflow:               *)
(*   workflow_graph.py   build_graph, get_execution_order, get_node_data   *)
(*   cache_manager.py    CacheManager                                      *)
(*   code_executor.py    execute_code                                      *)
(*   workflow_runner.py  WorkflowRunner.run_workflow / run_single_box      *)
(* Python values are tagged records, so that None, a dict and a non-dict   *)
(* value can be told apart the way isinstance / "is None" tell them apart. *)
(***************************************************************************)
EXTENDS Integers, Sequences, FiniteSets, TLC

\* ------------------------------------------------------------------ bounds
\* Largest number of boxes / connections of a definition in the graph-only
\* specification SpecOrder.
MaxGraphBoxes == 4
MaxGraphConns == 4
\* Largest number of boxes / connections of a definition in the runner
\* specifications Spec and SpecConc.
MaxBoxes == 3
MaxConns == 2
\* Largest number of boxes of a definition whose logic is missing or fails.
MaxFaulty == 1
\* Largest number of boxes / connections of a definition in the
\* specification of concurrent runs, SpecConc.
MaxConcBoxes == 2
MaxConcConns == 1

\* ------------------------------------------------------------ Python values
None == [tag |-> "None"]
Dict(items) == [tag |-> "dict", items |-> items]
PyInt(n) == [tag |-> "int", n |-> n]
PyStr(s) == [tag |-> "str", s |-> s]
PyBool(b) == [tag |-> "bool", b |-> b]
\* A formatted message: the literal parts and the interpolated values
Msg(parts) == [tag |-> "str", parts |-> parts]
\* bool(v) for the values an Optional[str] argument takes
Truthy(v) == v.tag = "str" /\ v.s # ""
PyList(items) == [tag |-> "list", items |-> items]
\* A variable that has not been assigned yet
Unset == [tag |-> "unset"]
\* A call did not return: the exception exc left it
Raised(exc) == [tag |-> "raised", raised |-> exc]
EmptyItems == [k \in {} |-> None]
EmptyDict == Dict(EmptyItems)
IsDict(v) == v.tag = "dict"

\* d[k] = v on the items of a dict (a TLA+ function over its keys)
SetKey(items, k, v) == [x \in DOMAIN items \cup {k} |-> IF x = k THEN v ELSE items[x]]
\* del d[k]
DelKey(items, k) == [x \in DOMAIN items \ {k} |-> items[x]]

\* An insertion-ordered dict whose iteration order matters is a sequence of
\* <<key, value>> pairs with distinct keys.
\* An assignment that keeps the value a key already has
PairsSetFirstWins(pairs, k, v) ==
    IF \E i \in 1..Len(pairs) : pairs[i][1] = k THEN pairs
    ELSE Append(pairs, <<k, v>>)

RECURSIVE PairsSet(_, _, _)
PairsSet(pairs, k, v) ==
    IF pairs = << >> THEN << <<k, v>> >>
    ELSE IF Head(pairs)[1] = k THEN << <<k, v>> >> \o Tail(pairs)
    ELSE << Head(pairs) >> \o PairsSet(Tail(pairs), k, v)
PairsKeys(pairs) == {pairs[i][1] : i \in 1..Len(pairs)}
PairsGet(pairs, k) == (CHOOSE i \in 1..Len(pairs) : pairs[i][1] = k)
PairsValue(pairs, k) == pairs[PairsGet(pairs, k)][2]

SeqToSet(s) == {s[i] : i \in 1..Len(s)}

\* ------------------------------------------------------------- definitions
\* The names a definition may use for its boxes and for target inputs.
BoxNames == <<"A", "B", "C", "D", "E">>
InputNames == {"x", "y"}
\* A box id that names no box of any definition.
UnknownId == "Q"

\* Box logic. The text of a box's code is opaque; what matters is what
\* exec() and execute(**inputs) do with it:
\*   ""        no code (the parser's default, markdown_parser.py:42)
\*   "ok"      execute(**kwargs) returns a dict computed from its arguments
\*   "empty"   execute returns {}
\*   "raise"   execute raises
\*   "nondict" execute returns a value that is not a dict
\*   "nodef"   the code defines no callable named execute
\*   "syntax"  the code does not compile
\*   "rand"    execute returns one of two dicts (logic that is not a function
\*             of its inputs)
\*   "needs_x" execute(x) takes exactly the input x
\*   "none"    execute returns None (a function without a return)
\*   "exit"    execute raises SystemExit (sys.exit(), exit())
CodeStrings == {"", "ok", "empty", "raise", "nondict", "nodef", "syntax", "rand",
                "needs_x", "none", "exit"}

\* A box as the parser makes it (markdown_parser.py:42): every key is there
Box(id, inputs, code) ==
    [id |-> id, description |-> "", inputs |-> inputs, code |-> code]
Connection(s, t, k) == [source |-> s, target |-> t, target_input |-> k]
\* A definition: keys are the keys of the dict, boxes and connections the
\* values of those two (whatever they are when the key is absent)
Parsed(boxes, conns, layout) ==
    [tag |-> "dict", keys |-> {"boxes", "connections", "layout"},
     boxes |-> PyList(boxes), connections |-> PyList(conns), layout |-> Dict(layout)]
ParsedData(boxes, conns) == Parsed(boxes, conns, EmptyItems)

\* d.get(k) of a dict of strings, tested for truth only: "" when k is absent
GetStr(d, k) == IF k \in DOMAIN d THEN d[k] ELSE ""
\* dict.update: the keys of new are set in old, the other keys of old stay
Updated(old, new) ==
    [k \in DOMAIN old \cup DOMAIN new |-> IF k \in DOMAIN new THEN new[k] ELSE old[k]]
\* A list element or a definition that is a dict (it has .get)
IsMapping(v) == "tag" \notin DOMAIN v \/ v.tag = "dict"

\* ------------------------------------------------------- workflow_graph.py
\* nx.DiGraph: nodes in insertion order, their attribute dicts, and the
\* successor lists in insertion order.
EmptyGraph == [tag |-> "DiGraph", nodes |-> << >>,
               data |-> [n \in {} |-> None], succ |-> [n \in {} |-> << >>]]
IsGraph(g) == g.tag = "DiGraph"
HasNode(g, n) == n \in DOMAIN g.data
Nodes(g) == DOMAIN g.data
HasEdge(g, u, v) == HasNode(g, u) /\ v \in SeqToSet(g.succ[u])
Edges(g) == {e \in Nodes(g) \X Nodes(g) : HasEdge(g, e[1], e[2])}

\* graph.add_node(box_id, **box_data): the attributes of a node that is
\* there already are updated with attrs, not replaced by them
add_node(g, n, attrs) ==
    IF HasNode(g, n)
    THEN [g EXCEPT !.data = SetKey(g.data, n, Updated(g.data[n], attrs))]
    ELSE [g EXCEPT !.nodes = Append(g.nodes, n),
                   !.data = SetKey(g.data, n, attrs),
                   !.succ = SetKey(g.succ, n, << >>)]

\* graph.add_edge(source, target), both nodes present
add_edge(g, u, v) ==
    IF HasEdge(g, u, v) THEN g
    ELSE [g EXCEPT !.succ = SetKey(g.succ, u, Append(g.succ[u], v))]

\* One iteration of the boxes loop of build_graph
AddBox(g, box) ==
    IF GetStr(box, "id") = "" THEN g
    ELSE add_node(g, box.id, Updated(box, [input_sources |-> << >>]))

\* A connections loop that takes a target it does not know for a new node
AddConnectionDangling(g, c) ==
    IF GetStr(c, "source") = "" \/ GetStr(c, "target") = ""
          \/ GetStr(c, "target_input") = "" THEN g
    ELSE IF ~HasNode(g, c.source) THEN g
    ELSE LET h == IF HasNode(g, c.target) THEN g
                  ELSE add_node(g, c.target, [input_sources |-> << >>])
         IN  add_edge(
               [h EXCEPT !.data[c.target].input_sources =
                            PairsSet(@, c.target_input, c.source)],
               c.source, c.target)

\* A connections loop that records the input source and adds no edge
AddConnectionNoEdge(g, c) ==
    IF GetStr(c, "source") = "" \/ GetStr(c, "target") = ""
          \/ GetStr(c, "target_input") = "" THEN g
    ELSE IF ~HasNode(g, c.source) THEN g
    ELSE IF ~HasNode(g, c.target) THEN g
    ELSE [g EXCEPT !.data[c.target].input_sources =
                      PairsSet(@, c.target_input, c.source)]

\* One iteration of the connections loop of build_graph
AddConnection(g, c) ==
    IF GetStr(c, "source") = "" \/ GetStr(c, "target") = ""
          \/ GetStr(c, "target_input") = "" THEN g
    ELSE IF ~HasNode(g, c.source) THEN g
    ELSE IF ~HasNode(g, c.target) THEN g
    ELSE add_edge(
           [g EXCEPT !.data[c.target].input_sources =
                        PairsSet(@, c.target_input, c.source)],
           c.source, c.target)

RECURSIVE AddBoxes(_, _)
AddBoxes(g, boxes) ==
    IF boxes = << >> THEN g ELSE AddBoxes(AddBox(g, Head(boxes)), Tail(boxes))

RECURSIVE AddConnections(_, _)
AddConnections(g, conns) ==
    IF conns = << >> THEN g
    ELSE AddConnections(AddConnection(g, Head(conns)), Tail(conns))

\* build_graph, lines 13-78. Nothing in it catches an exception: iterating
\* a value that is not a list raises TypeError, .get on an element that is
\* not a dict raises AttributeError.
build_graph(pd) ==
    IF pd.tag = "None" THEN None
    ELSE IF pd.keys = {} \/ "boxes" \notin pd.keys \/ "connections" \notin pd.keys
    THEN None
    ELSE IF pd.boxes.tag # "list" THEN Raised("TypeError")
    ELSE IF \E j \in 1..Len(pd.boxes.items) : ~IsMapping(pd.boxes.items[j])
    THEN Raised("AttributeError")
    ELSE IF pd.connections.tag # "list" THEN Raised("TypeError")
    ELSE IF \E j \in 1..Len(pd.connections.items) :
                ~IsMapping(pd.connections.items[j])
    THEN Raised("AttributeError")
    ELSE AddConnections(AddBoxes(EmptyGraph, pd.boxes.items), pd.connections.items)

\* A degree count that leaves out the edge from a node to itself
InDegreeNoSelfLoop(g, v) == Cardinality({u \in Nodes(g) \ {v} : HasEdge(g, u, v)})

\* G.in_degree(v): the number of predecessors, a self-loop included
InDegree(g, v) == Cardinality({u \in Nodes(g) : HasEdge(g, u, v)})

\* A visit that releases a child as soon as one of its parents is emitted
KahnVisitFirstParent(g, indeg, n) ==
    [v \in DOMAIN indeg \ {n} |-> IF HasEdge(g, n, v) THEN 0 ELSE indeg[v]]

\* One step of nx.topological_sort (Kahn's algorithm): node n, of in-degree
\* zero, is emitted and the in-degree of each of its children drops by one.
KahnVisit(g, indeg, n) ==
    [v \in DOMAIN indeg \ {n} |->
        IF HasEdge(g, n, v) THEN indeg[v] - 1 ELSE indeg[v]]

\* Every order nx.topological_sort can produce: networkx does not fix which
\* node of in-degree zero comes first, so the tie is open. The set is empty
\* when nodes remain whose in-degree never reaches zero (NetworkXUnfeasible).
RECURSIVE KahnOrders(_, _, _)
KahnOrders(g, indeg, done) ==
    LET zero == {v \in DOMAIN indeg : indeg[v] = 0}
    IN  IF DOMAIN indeg = {} THEN {done}
        ELSE IF zero = {} THEN {}
        ELSE UNION {KahnOrders(g, KahnVisit(g, indeg, n), Append(done, n)) : n \in zero}

topological_sorts(g) == KahnOrders(g, [v \in Nodes(g) |-> InDegree(g, v)], << >>)

\* nx.is_directed_acyclic_graph: the topological sort runs to the end
is_directed_acyclic_graph(g) == topological_sorts(g) # {}

\* The results get_execution_order can return: None, or a list of box ids
ExecutionOrders(g) ==
    IF ~IsGraph(g) THEN {None}
    ELSE IF ~is_directed_acyclic_graph(g) THEN {None}
    ELSE {PyList(o) : o \in topological_sorts(g)}

\* get_node_data(graph, box_id)
get_node_data(g, box_id) ==
    IF ~IsGraph(g) THEN None
    ELSE IF ~HasNode(g, box_id) THEN None
    ELSE [tag |-> "dict", attrs |-> g.data[box_id]]

\* -------------------------------------------------------- cache_manager.py
\* CacheManager._cache: box id -> {'output': ..., 'inputs': ...}
EmptyCache == [k \in {} |-> None]

\* A read that takes an output that is an empty mapping for no output
get_cached_outputTruthy(c, box_id) ==
    IF box_id \in DOMAIN c /\ c[box_id].output # EmptyDict
    THEN c[box_id].output ELSE None

\* get_cached_output, lines 14-29
get_cached_output(c, box_id) ==
    IF box_id \in DOMAIN c THEN c[box_id].output ELSE None

\* A lookup of the inputs that answers with the output
get_cached_inputsOfOutput(c, box_id) ==
    IF box_id \in DOMAIN c THEN c[box_id].output ELSE None

get_cached_inputs(c, box_id) ==
    IF box_id \in DOMAIN c THEN c[box_id].inputs ELSE None

\* A write that stores the two mappings the wrong way round
update_cacheSwapped(c, box_id, output_data, input_data) ==
    IF ~IsDict(output_data) \/ ~IsDict(input_data) THEN c
    ELSE SetKey(c, box_id, [output |-> input_data, inputs |-> output_data])

\* A write that checks the output only
update_cacheOutputOnly(c, box_id, output_data, input_data) ==
    IF ~IsDict(output_data) THEN c
    ELSE SetKey(c, box_id, [output |-> output_data, inputs |-> input_data])

\* A write that checks nothing
update_cacheUnchecked(c, box_id, output_data, input_data) ==
    SetKey(c, box_id, [output |-> output_data, inputs |-> input_data])

\* update_cache, lines 48-65: non-dict data is skipped (57-59)
update_cache(c, box_id, output_data, input_data) ==
    IF ~IsDict(output_data) \/ ~IsDict(input_data) THEN c
    ELSE SetKey(c, box_id, [output |-> output_data, inputs |-> input_data])

\* A clear that removes nothing when it is given no id
clear_cacheNoop(c, box_id) ==
    IF Truthy(box_id)
    THEN IF box_id.s \in DOMAIN c THEN DelKey(c, box_id.s) ELSE c
    ELSE c

\* clear_cache(box_id=None): box_id is None or a string
clear_cache(c, box_id) ==
    IF Truthy(box_id)
    THEN IF box_id.s \in DOMAIN c THEN DelKey(c, box_id.s) ELSE c
    ELSE EmptyCache

get_all_cache_keys(c) == DOMAIN c

\* -------------------------------------------------------- code_executor.py
\* What execute(**input_data) of the "ok" logic returns: {"n": 1 + the sum of
\* the n fields of its arguments}, so the output depends on every argument.
RECURSIVE SumN(_, _)
SumN(items, keys) ==
    IF keys = {} THEN 0
    ELSE LET k == CHOOSE x \in keys : TRUE
             v == items[k]
             n == IF IsDict(v) /\ "n" \in DOMAIN v.items /\ v.items["n"].tag = "int"
                  THEN v.items["n"].n ELSE 0
         IN  n + SumN(items, keys \ {k})

\* The outcome of exec(code_string) followed by execute(**input_data):
\* "raised", or "returned" with the value. choice resolves logic that is not
\* a function of its inputs.
RunLogic(code_string, input_data, choice) ==
    CASE code_string = "syntax" -> [how |-> "raised", at |-> "exec", value |-> None]
      [] code_string \in {"nodef", ""} ->
            [how |-> "nodef", at |-> "exec", value |-> None]
      [] code_string = "raise" -> [how |-> "raised", at |-> "call", value |-> None]
      [] code_string = "exit" -> [how |-> "exited", at |-> "call", value |-> None]
      [] code_string = "needs_x" /\ DOMAIN input_data.items # {"x"} ->
            [how |-> "raised", at |-> "call", value |-> None]
      [] code_string = "nondict" -> [how |-> "returned", at |-> "call", value |-> PyInt(5)]
      [] code_string = "none" -> [how |-> "returned", at |-> "call", value |-> None]
      [] code_string \in {"empty", "poke"} ->
            [how |-> "returned", at |-> "call", value |-> EmptyDict]
      [] code_string = "rand" ->
            [how |-> "returned", at |-> "call",
             value |-> Dict([r |-> PyInt(choice)])]
      [] OTHER ->
            [how |-> "returned", at |-> "call",
             value |-> Dict([n |-> PyInt(1 + SumN(input_data.items,
                                                  DOMAIN input_data.items))])]

Outcome(success, output, error) ==
    [success |-> success, output |-> output, error |-> error]

\* The name type(value) shows for a value
ClassName(value) ==
    CASE value.tag = "None" -> "NoneType"
      [] value.tag = "int" -> "int"
      [] value.tag = "str" -> "str"
      [] value.tag = "bool" -> "bool"
      [] value.tag = "list" -> "list"
      [] OTHER -> "dict"

\* What execute_code makes of what the logic did (r)
Normalized(box_id, r) ==
    IF r.how = "exited"
    THEN Raised("SystemExit")
    ELSE IF r.how = "raised"
    THEN Outcome(FALSE, None, Msg(<<"Error during execution: ", r.at>>))
    ELSE IF r.how = "nodef"
    THEN Outcome(FALSE, None,
                 Msg(<<"Box '", box_id,
                       "': Code does not define a callable function named 'execute'.">>))
    ELSE IF ~IsDict(r.value)
    THEN Outcome(FALSE, None,
                 Msg(<<"Box '", box_id,
                       "': 'execute' function did not return a dictionary. Returned type: ",
                       "<class '", ClassName(r.value), "'>">>))
    ELSE Outcome(TRUE, r.value, None)

\* An executor that leaves the returned value in a failed outcome
execute_codeKeepOutput(box_id, code_string, input_data, choice) ==
    LET r == RunLogic(code_string, input_data, choice)
        o == Normalized(box_id, r)
    IN  IF r.how = "returned" /\ ~IsDict(r.value) THEN [o EXCEPT !.output = r.value]
        ELSE o

\* An executor that adds the box id to the mapping the logic returned
execute_codeStamped(box_id, code_string, input_data, choice) ==
    LET r == RunLogic(code_string, input_data, choice)
        o == Normalized(box_id, r)
    IN  IF r.how = "returned" /\ IsDict(r.value)
        THEN [o EXCEPT !.output = Dict(SetKey(r.value.items, "box_id", PyStr(box_id)))]
        ELSE o

\* execute_code, lines 7-67: the except clause (line 60) catches Exception,
\* so SystemExit, which is not an Exception, leaves the function
execute_code(box_id, code_string, input_data, choice) ==
    Normalized(box_id, RunLogic(code_string, input_data, choice))

\* ------------------------------------------------------------------- state
\* ------------------------------------------------------ markdown_parser.py
\* Largest number of lines read from a workflow file
MaxLines == 5

\* A line whose bytes are not UTF-8: reading it raises UnicodeDecodeError
Undecodable == "<not utf-8>"
\* A layout line whose braces hold a call of exit
ExitLine == "A: {exit()}"
\* The fence lines of a code block: three backquotes, followed by the word
\* python on the opening line
FenceOpen == "<fence>python"
FenceClose == "<fence>"
\* The lines, stripped, that a workflow file is made of
FileLines ==
    {"## BOX: A", "## BOX: B", "## BOX:", "## CONNECTIONS", "## VISUAL_LAYOUT",
     "## Notes", "**Inputs:** x, y", FenceOpen, FenceClose, "return {}", "",
     "A.output -> B.x", "A: {'x': 1, 'y': 2}", ExitLine, Undecodable}

\* line.startswith(prefix) for the prefixes the parser tests
StartsWith(line, prefix) ==
    CASE prefix = "## BOX:" -> line \in {"## BOX: A", "## BOX: B", "## BOX:"}
      [] prefix = "## CONNECTIONS" -> line = "## CONNECTIONS"
      [] prefix = "## VISUAL_LAYOUT" -> line = "## VISUAL_LAYOUT"
      [] prefix = "##" -> line \in {"## BOX: A", "## BOX: B", "## BOX:",
                                    "## CONNECTIONS", "## VISUAL_LAYOUT", "## Notes"}
      [] prefix = "**Inputs:**" -> line = "**Inputs:** x, y"
      [] prefix = FenceOpen -> line = FenceOpen
      [] prefix = FenceClose -> line \in {FenceOpen, FenceClose}
      [] OTHER -> FALSE

\* line.split(":", 1)[1].strip() of a BOX header
box_name(line) ==
    CASE line = "## BOX: A" -> "A" [] line = "## BOX: B" -> "B" [] OTHER -> ""

\* The names of an Inputs line, split at commas and stripped
cleaned_inputs(line) == IF line = "**Inputs:** x, y" THEN <<"x", "y">> ELSE << >>

\* The connection a line is by the regular expression of line 97, or None
ConnectionMatch(line) ==
    IF line = "A.output -> B.x" THEN Connection("A", "B", "x") ELSE None

\* The box name of a line that matches the regular expression of line 108
LayoutMatch(line) == IF line \in {"A: {'x': 1, 'y': 2}", ExitLine} THEN PyStr("A") ELSE None
\* eval of the braces of a layout line
LayoutEval(line) ==
    IF line = ExitLine THEN Raised("SystemExit")
    ELSE Dict([x |-> PyInt(1), y |-> PyInt(2)])

\* A string of several lines; Text(<< >>) is the empty string
Text(lines) == [tag |-> "str", lines |-> lines]
RECURSIVE LStrip(_)
LStrip(lines) ==
    IF lines # << >> /\ Head(lines) = "" THEN LStrip(Tail(lines)) ELSE lines
RECURSIVE RStrip(_)
RStrip(lines) ==
    IF lines # << >> /\ lines[Len(lines)] = ""
    THEN RStrip(SubSeq(lines, 1, Len(lines) - 1)) ELSE lines
\* "\n".join(code_buffer).strip()
Joined(code_buffer) == Text(RStrip(LStrip(code_buffer)))

\* parse_markdown_file, lines 18-22: the locals before the file is opened;
\* lines are the lines read so far, failed whether an exception was raised
NewParser ==
    [pc |-> "open", lines |-> << >>, boxes |-> << >>, connections |-> << >>,
     layout |-> EmptyItems, current_section |-> "None", current_box |-> None,
     in_code_block |-> FALSE, code_buffer |-> << >>, failed |-> FALSE]

\* if current_box: its code is set and it is appended to the boxes
SaveBox(p) ==
    IF p.current_box = None THEN p
    ELSE [p EXCEPT !.boxes = Append(@, [p.current_box EXCEPT
                                           !.code = Joined(p.code_buffer)])]

\* Lines 32-68: the section headers
SectionHeader(p, line) ==
    IF StartsWith(line, "## BOX:")
    THEN IF box_name(line) = ""
         THEN [SaveBox(p) EXCEPT !.current_section = "box", !.current_box = None]
         ELSE [SaveBox(p) EXCEPT !.current_section = "box",
                                 !.current_box = Box(box_name(line), << >>,
                                                     Text(<< >>)),
                                 !.code_buffer = << >>,
                                 !.in_code_block = FALSE]
    ELSE IF StartsWith(line, "## CONNECTIONS")
    THEN [SaveBox(p) EXCEPT !.current_box = None, !.current_section = "connections",
                            !.in_code_block = FALSE]
    ELSE IF StartsWith(line, "## VISUAL_LAYOUT")
    THEN [SaveBox(p) EXCEPT !.current_box = None, !.current_section = "layout",
                            !.in_code_block = FALSE]
    ELSE IF StartsWith(line, "##")
    THEN [SaveBox(p) EXCEPT !.current_box = None, !.current_section = "None",
                            !.in_code_block = FALSE]
    ELSE p

\* Lines 71-122: the line within the current section
SectionLine(p, line) ==
    IF p.current_section = "box" /\ p.current_box # None
    THEN IF StartsWith(line, "**Inputs:**")
         THEN [p EXCEPT !.current_box.inputs = cleaned_inputs(line)]
         ELSE IF StartsWith(line, FenceOpen)
         THEN [p EXCEPT !.in_code_block = TRUE, !.code_buffer = << >>]
         ELSE IF StartsWith(line, FenceClose) /\ p.in_code_block
         THEN [p EXCEPT !.in_code_block = FALSE]
         ELSE IF p.in_code_block
         THEN [p EXCEPT !.code_buffer = Append(@, line)]
         ELSE IF ~StartsWith(line, "##") /\ p.current_box.description = ""
                 /\ line # ""
         THEN [p EXCEPT !.current_box.description = line]
         ELSE p
    ELSE IF p.current_section = "connections"
    THEN IF ConnectionMatch(line) # None
         THEN [p EXCEPT !.connections = Append(@, ConnectionMatch(line))]
         ELSE p
    ELSE IF p.current_section = "layout"
    THEN IF LayoutMatch(line) # None
         THEN [p EXCEPT !.layout = SetKey(@, LayoutMatch(line).s,
                                          LayoutEval(line))]
         ELSE p
    ELSE p

\* One iteration of the loop over the lines of the file (lines 26-122); a
\* BOX header without a name ends the iteration at its continue (line 40)
ParseStep(p, line) ==
    IF StartsWith(line, "## BOX:") /\ box_name(line) = ""
    THEN SectionHeader(p, line)
    ELSE SectionLine(SectionHeader(p, line), line)

\* The iteration calls eval on a layout line and eval raises SystemExit
EvalExits(p, line) ==
    /\ SectionHeader(p, line).current_section = "layout"
    /\ LayoutMatch(line) # None
    /\ LayoutEval(line) = Raised("SystemExit")

VARIABLES
    parsed_data,  \* the definition handed to build_graph
    graph,        \* the graph handed to the runner (Api._graph), or None
    exec_order,   \* the result of a direct call of get_execution_order
    cache,        \* CacheManager._cache
    th,           \* per thread: the locals of the run it executes
    callbacks,    \* per thread: the update_callback calls of its current run
    executed,     \* per thread: the execute_code calls of its current run
    wrote,        \* per thread: the update_cache calls of its current run
    host_writes,  \* number of update_cache calls made by the host itself
    call,         \* the last direct call of a cache or executor function
    parser        \* the locals of parse_markdown_file and the lines it has read

vars == <<parsed_data, graph, exec_order, cache, th, callbacks, executed, wrote,
          host_writes, call, parser>>

\* A direct call of a cache or executor function, as the host (or a test)
\* makes it: the function, its arguments, the cache before the call, what
\* the box logic did (executor calls) and what the call returned
Call(op, box_id, code_string, output_data, input_data, before, logic, ret) ==
    [op |-> op, box_id |-> box_id, code_string |-> code_string,
     output_data |-> output_data, input_data |-> input_data,
     before |-> before, logic |-> logic, ret |-> ret]
NoCall == Call("none", None, None, None, None, None, None, None)

\* The threads that execute runs (main.py starts one per request).
Threads == {1, 2}
\* Number of update_cache calls the host itself may make in one behaviour.
MaxHostWrites == 1

\* The locals of a thread that executes no run. order is the value of
\* execution_order; after_failed_order records that the run follows, with
\* nothing in between, a full run that found no execution order; entry
\* records the cache entry the box of a single run had when the run began;
\* graph is the graph the run was given as its argument.
Idle == [pc |-> "idle", fn |-> "none", graph |-> Unset, box_id |-> "",
         order |-> Unset, idx |-> 0,
         code_string |-> "", input_data |-> EmptyDict, pending |-> << >>,
         result |-> None, ret |-> None, after_failed_order |-> FALSE,
         entry |-> None]

Callback(box_id, status, data) == [box_id |-> box_id, status |-> status, data |-> data]
ErrorData(parts) == Dict([message |-> Msg(parts)])

\* The locals of a run that has returned value r
Returned(l, r) ==
    [l EXCEPT !.pc = "done", !.ret = PyBool(r), !.code_string = "",
              !.input_data = EmptyDict, !.pending = << >>, !.result = None]

\* ------------------------------------------------------------- definitions
BoxIdsUpTo(n) == {BoxNames[i] : i \in 1..n}
\* Sequences of n boxes, each declaring the input x, of which at most
\* MaxFaulty have logic other than "ok"
BoxesOf(n, codes) ==
    {[i \in 1..n |-> Box(BoxNames[i], <<"x">>, c[i])] :
        c \in {f \in [1..n -> codes] :
                  Cardinality({i \in 1..n : f[i] # "ok"}) <= MaxFaulty}}
ConnsOf(n, inputs) ==
    {Connection(s, t, k) : s \in BoxIdsUpTo(n), t \in BoxIdsUpTo(n), k \in inputs}

\* The definitions with n boxes whose logic is among codes and at most
\* maxc connections whose target inputs are among inputs
IsDefinition(pd, n, codes, inputs, maxc) ==
    \E b \in BoxesOf(n, codes) : \E m \in 0..maxc :
        \E c \in [1..m -> ConnsOf(n, inputs)] : pd = ParsedData(b, c)

\* The logic of the boxes of the runner specifications
RunCodes == {"", "ok", "empty", "raise", "rand"}

\* What logic that is not a function of its inputs may pick
Choices == {0, 1}

\* -------------------------------------------------------------------- Init
InitCommon ==
    /\ exec_order = Unset
    /\ cache = EmptyCache
    /\ th = [t \in Threads |-> Idle]
    /\ callbacks = [t \in Threads |-> << >>]
    /\ executed = [t \in Threads |-> << >>]
    /\ wrote = [t \in Threads |-> << >>]
    /\ host_writes = 0
    /\ call = NoCall
    /\ parser = NewParser

\* workflow_graph.py __main__: a parsed definition, no graph built yet
InitOrder ==
    /\ \E n \in 0..MaxGraphBoxes :
          IsDefinition(parsed_data, n, {"ok"}, {"x"}, MaxGraphConns)
    /\ graph = Unset
    /\ InitCommon

\* workflow_runner.py __main__: the graph is built, the cache is new
Init ==
    /\ \E n \in 0..MaxBoxes :
          IsDefinition(parsed_data, n, RunCodes, InputNames, MaxConns)
    /\ graph = build_graph(parsed_data)
    /\ InitCommon

\* ------------------------------------------- workflow_graph.py, direct calls
BuildGraph ==
    /\ graph = Unset
    /\ graph' = build_graph(parsed_data)
    /\ UNCHANGED <<parsed_data, exec_order, cache, th, callbacks, executed, wrote,
                   host_writes, call, parser>>

GetExecutionOrder ==
    /\ graph # Unset
    /\ exec_order = Unset
    /\ \E o \in ExecutionOrders(graph) : exec_order' = o
    /\ UNCHANGED <<parsed_data, graph, cache, th, callbacks, executed, wrote,
                   host_writes, call, parser>>

NextOrder == BuildGraph \/ GetExecutionOrder

\* The attribute dict of the edge u -> v: add_edge(source, target) at line
\* 74 of build_graph is the only call that makes an edge, and it passes no
\* attribute
edge_data(g, u, v) == EmptyItems

\* graph.in_edges(box_id, data=True): a triple for each predecessor
in_edges(g, box_id) ==
    LET preds == SelectSeq(g.nodes, LAMBDA u : HasEdge(g, u, box_id))
    IN  [i \in 1..Len(preds) |-> <<preds[i], box_id, edge_data(g, preds[i], box_id)>>]

\* The loop of get_upstream_connections, lines 161-170: an edge whose data
\* has no truthy 'target_input' is logged and skipped
RECURSIVE UpstreamOf(_)
UpstreamOf(edges) ==
    IF edges = << >> THEN << >>
    ELSE LET data == Head(edges)[3]
             target_input == IF "target_input" \in DOMAIN data
                             THEN data["target_input"] ELSE None
         IN  (IF Truthy(target_input)
              THEN << [source_box |-> Head(edges)[1], target_input |-> target_input.s] >>
              ELSE << >>) \o UpstreamOf(Tail(edges))

\* get_upstream_connections, lines 139-174
get_upstream_connections(g, box_id) ==
    IF ~IsGraph(g) THEN << >>
    ELSE IF ~HasNode(g, box_id) THEN << >>
    ELSE UpstreamOf(in_edges(g, box_id))

\* The ids get_upstream_connections is asked about
UpstreamIds == BoxIdsUpTo(MaxGraphBoxes) \cup {UnknownId}

GetUpstreamConnections(box_id) ==
    /\ graph # Unset
    /\ call' = Call("get_upstream_connections", PyStr(box_id), None, None, None,
                    None, None, PyList(get_upstream_connections(graph, box_id)))
    /\ UNCHANGED <<parsed_data, graph, exec_order, cache, th, callbacks, executed,
                   wrote, host_writes, parser>>

NextUpstream == BuildGraph \/ \E box_id \in UpstreamIds : GetUpstreamConnections(box_id)

\* build_graph called on definitions of any shape: boxes with an empty,
\* missing or repeated id, with or without a description (the key is
\* optional in a definition); connections with empty or missing fields and
\* with ends that name no box; definitions that are absent or malformed
MaxBuildBoxes == 2
MaxBuildConns == 2
BuildIds == {"", "A", "B"}
BuildBoxes ==
    {[id |-> i, description |-> "first", inputs |-> <<"x">>, code |-> "ok"] :
        i \in BuildIds}
    \cup {[id |-> i, inputs |-> << >>, code |-> "raise"] : i \in BuildIds}
    \cup {[inputs |-> << >>, code |-> "ok"]}
BuildConns ==
    {Connection(u, v, k) : u \in BuildIds \cup {UnknownId},
                           v \in BuildIds \cup {UnknownId}, k \in {"", "x", "y"}}
    \cup {[source |-> "A"]}
NotARecord == PyInt(1)
MalformedDefinitions ==
    {None,
     [tag |-> "dict", keys |-> {}, boxes |-> None, connections |-> None],
     [tag |-> "dict", keys |-> {"boxes"}, boxes |-> PyList(<< >>),
      connections |-> None],
     [tag |-> "dict", keys |-> {"connections"}, boxes |-> None,
      connections |-> PyList(<< >>)],
     [tag |-> "dict", keys |-> {"boxes", "connections"}, boxes |-> None,
      connections |-> PyList(<< >>)],
     [tag |-> "dict", keys |-> {"boxes", "connections"},
      boxes |-> PyList(<<NotARecord>>), connections |-> PyList(<< >>)],
     [tag |-> "dict", keys |-> {"boxes", "connections"}, boxes |-> PyList(<< >>),
      connections |-> None],
     [tag |-> "dict", keys |-> {"boxes", "connections"}, boxes |-> PyList(<< >>),
      connections |-> PyList(<<NotARecord>>)]}

InitBuild ==
    /\ \/ parsed_data \in MalformedDefinitions
       \/ \E nb \in 0..MaxBuildBoxes : \E b \in [1..nb -> BuildBoxes] :
              \E nc \in 0..MaxBuildConns : \E c \in [1..nc -> BuildConns] :
                 parsed_data = ParsedData(b, c)
    /\ graph = Unset
    /\ InitCommon

SpecBuild == InitBuild /\ [][BuildGraph]_vars

SpecOrder == InitOrder /\ [][NextOrder]_vars
\* A definition is built and its nodes are asked for their upstream
\* connections
SpecUpstream == InitOrder /\ [][NextUpstream]_vars

\* --------------------------------------------- markdown_parser.py, the call
\* Line 25: open(file_path); a file that is not there raises
\* FileNotFoundError and the empty structure is returned (lines 132-134)
ParseOpen(exists) ==
    /\ parser.pc = "open"
    /\ IF exists
       THEN /\ parser' = [parser EXCEPT !.pc = "reading"]
            /\ UNCHANGED parsed_data
       ELSE /\ parser' = [parser EXCEPT !.pc = "returned", !.failed = TRUE]
            /\ parsed_data' = Parsed(<< >>, << >>, EmptyItems)
    /\ UNCHANGED <<graph, exec_order, cache, th, callbacks, executed, wrote,
                   host_writes, call>>

\* Lines 26-122: the next line of the file is read and parsed. Bytes that
\* are not UTF-8 raise UnicodeDecodeError, an Exception, and the empty
\* structure is returned (lines 135-137); SystemExit is no Exception and
\* leaves parse_markdown_file.
ParseLine(line) ==
    /\ parser.pc = "reading"
    /\ Len(parser.lines) < MaxLines
    /\ IF line = Undecodable
       THEN /\ parser' = [parser EXCEPT !.pc = "returned", !.failed = TRUE,
                                        !.lines = Append(@, line)]
            /\ parsed_data' = Parsed(<< >>, << >>, EmptyItems)
       ELSE IF EvalExits(parser, line)
       THEN /\ parser' = [SectionHeader(parser, line) EXCEPT
                              !.pc = "raised", !.failed = TRUE,
                              !.lines = Append(@, line)]
            /\ parsed_data' = Raised("SystemExit")
       ELSE /\ parser' = [ParseStep(parser, line) EXCEPT !.lines = Append(@, line)]
            /\ UNCHANGED parsed_data
    /\ UNCHANGED <<graph, exec_order, cache, th, callbacks, executed, wrote,
                   host_writes, call>>

\* An end of file that returns without the box that was being parsed
ParseEndDropsLast ==
    /\ parser.pc = "reading"
    /\ parser' = [parser EXCEPT !.pc = "returned"]
    /\ parsed_data' = Parsed(parser.boxes, parser.connections, parser.layout)
    /\ UNCHANGED <<graph, exec_order, cache, th, callbacks, executed, wrote,
                   host_writes, call>>

\* Lines 124-139: the end of the file; the last box is added and the
\* parsed data are returned
ParseEnd ==
    /\ parser.pc = "reading"
    /\ parser' = [SaveBox(parser) EXCEPT !.pc = "returned"]
    /\ parsed_data' = Parsed(SaveBox(parser).boxes, parser.connections, parser.layout)
    /\ UNCHANGED <<graph, exec_order, cache, th, callbacks, executed, wrote,
                   host_writes, call>>

InitParse ==
    /\ parsed_data = Unset
    /\ graph = Unset
    /\ InitCommon

NextParse ==
    \/ \E exists \in BOOLEAN : ParseOpen(exists)
    \/ \E line \in FileLines : ParseLine(line)
    \/ ParseEnd

SpecParse == InitParse /\ [][NextParse]_vars

\* ------------------------------------------------------ workflow_runner.py
Running(t) == th[t].pc \notin {"idle", "done"}
Emit(t, box_id, status, data) ==
    callbacks' = [callbacks EXCEPT ![t] = Append(@, Callback(box_id, status, data))]

\* A start of a full run that keeps the cache
RunWorkflowStartNoClear(t) ==
    /\ ~Running(t)
    /\ graph # Unset
    /\ th' = [th EXCEPT ![t] = [Idle EXCEPT !.pc = "rw_order", !.fn = "run_workflow",
                                            !.graph = graph]]
    /\ callbacks' = [callbacks EXCEPT ![t] = << >>]
    /\ executed' = [executed EXCEPT ![t] = << >>]
    /\ wrote' = [wrote EXCEPT ![t] = << >>]
    /\ UNCHANGED <<parsed_data, graph, exec_order, cache, host_writes, call, parser>>

\* run_workflow, lines 45-48: a new run starts and clears the whole cache
RunWorkflowStart(t) ==
    /\ ~Running(t)
    /\ graph # Unset
    /\ th' = [th EXCEPT ![t] = [Idle EXCEPT !.pc = "rw_order", !.fn = "run_workflow",
                                            !.graph = graph]]
    /\ cache' = clear_cache(cache, None)
    /\ callbacks' = [callbacks EXCEPT ![t] = << >>]
    /\ executed' = [executed EXCEPT ![t] = << >>]
    /\ wrote' = [wrote EXCEPT ![t] = << >>]
    /\ UNCHANGED <<parsed_data, graph, exec_order, host_writes, call, parser>>

\* A run that reports success when there is no execution order
RunWorkflowOrderTrue(t) ==
    /\ th[t].pc = "rw_order"
    /\ \E o \in ExecutionOrders(th[t].graph) :
          th' = [th EXCEPT ![t] =
                    IF o = None THEN Returned([@ EXCEPT !.order = o], TRUE)
                    ELSE [@ EXCEPT !.pc = "rw_loop", !.order = o, !.idx = 1]]
    /\ UNCHANGED <<parsed_data, graph, exec_order, cache, callbacks, executed, wrote,
                   host_writes, call, parser>>

\* A run that takes an empty execution order for a failure to order
RunWorkflowOrderFalsy(t) ==
    /\ th[t].pc = "rw_order"
    /\ \E o \in ExecutionOrders(th[t].graph) :
          th' = [th EXCEPT ![t] =
                    IF o = None \/ o = PyList(<< >>)
                    THEN Returned([@ EXCEPT !.order = o], FALSE)
                    ELSE [@ EXCEPT !.pc = "rw_loop", !.order = o, !.idx = 1]]
    /\ UNCHANGED <<parsed_data, graph, exec_order, cache, callbacks, executed, wrote,
                   host_writes, call, parser>>

\* run_workflow, lines 50-57: the execution order, or return False
RunWorkflowOrder(t) ==
    /\ th[t].pc = "rw_order"
    /\ \E o \in ExecutionOrders(th[t].graph) :
          th' = [th EXCEPT ![t] =
                    IF o = None THEN Returned([@ EXCEPT !.order = o], FALSE)
                    ELSE [@ EXCEPT !.pc = "rw_loop", !.order = o, !.idx = 1]]
    /\ UNCHANGED <<parsed_data, graph, exec_order, cache, callbacks, executed, wrote,
                   host_writes, call, parser>>

\* run_workflow, lines 59-61 and 136-141: the next box of the order is
\* announced, or the loop is over and the run returns overall_success
RunWorkflowLoop(t) ==
    /\ th[t].pc = "rw_loop"
    /\ IF th[t].idx > Len(th[t].order.items)
       THEN /\ th' = [th EXCEPT ![t] = Returned(@, TRUE)]
            /\ UNCHANGED callbacks
       ELSE /\ th' = [th EXCEPT ![t] = [@ EXCEPT !.pc = "rw_node",
                                                 !.box_id = th[t].order.items[th[t].idx]]]
            /\ Emit(t, th[t].order.items[th[t].idx], "running", None)
    /\ UNCHANGED <<parsed_data, graph, exec_order, cache, executed, wrote, host_writes, call, parser>>

\* A run that hands a box without code to the executor
NodeStepRunsEmpty(t, next) ==
    LET l == th[t]
        node_data == get_node_data(l.graph, l.box_id)
    IN  IF node_data = None
        THEN /\ Emit(t, l.box_id, "error",
                     ErrorData(<<"Node data not found for ", l.box_id>>))
             /\ th' = [th EXCEPT ![t] = Returned(@, FALSE)]
        ELSE /\ UNCHANGED callbacks
             /\ th' = [th EXCEPT ![t] =
                         [@ EXCEPT !.code_string = node_data.attrs.code,
                                   !.input_data = EmptyDict,
                                   !.pending = node_data.attrs.input_sources,
                                   !.pc = next]]

\* Lines 63-83 of run_workflow and 159-169 of run_single_box: the node's data
\* and code; next is the pc of the step that follows when both are there.
NodeStep(t, next) ==
    LET l == th[t]
        node_data == get_node_data(l.graph, l.box_id)
    IN  IF node_data = None
        THEN /\ Emit(t, l.box_id, "error",
                     ErrorData(<<"Node data not found for ", l.box_id>>))
             /\ th' = [th EXCEPT ![t] = Returned(@, FALSE)]
        ELSE IF node_data.attrs.code = ""
        THEN /\ Emit(t, l.box_id, "error",
                     ErrorData(<<"Code not found for ", l.box_id>>))
             /\ th' = [th EXCEPT ![t] = Returned(@, FALSE)]
        ELSE /\ UNCHANGED callbacks
             /\ th' = [th EXCEPT ![t] =
                         [@ EXCEPT !.code_string = node_data.attrs.code,
                                   !.input_data = EmptyDict,
                                   !.pending = node_data.attrs.input_sources,
                                   !.pc = next]]

RunWorkflowNode(t) ==
    /\ th[t].pc = "rw_node"
    /\ NodeStep(t, "rw_gather")
    /\ UNCHANGED <<parsed_data, graph, exec_order, cache, executed, wrote, host_writes, call, parser>>

\* A binding that passes one field of the upstream output, not the mapping
BindInputField(input_data, target_input_name, cached_output) ==
    Dict(SetKey(input_data.items, target_input_name,
                IF "n" \in DOMAIN cached_output.items
                THEN cached_output.items["n"] ELSE None))

\* run_workflow, line 101: input_data[target_input_name] = cached_output
BindInput(input_data, target_input_name, cached_output) ==
    Dict(SetKey(input_data.items, target_input_name, cached_output))

\* A gathering that leaves out an input whose upstream output is missing
RunWorkflowGatherSkip(t) ==
    /\ th[t].pc = "rw_gather"
    /\ LET l == th[t] IN
       IF l.pending = << >>
       THEN th' = [th EXCEPT ![t].pc = "rw_exec"]
       ELSE LET cached_output == get_cached_output(cache, Head(l.pending)[2])
            IN  th' = [th EXCEPT ![t] =
                         [@ EXCEPT !.input_data =
                                      IF cached_output = None THEN @
                                      ELSE BindInput(@, Head(l.pending)[1], cached_output),
                                   !.pending = Tail(@)]]
    /\ UNCHANGED <<parsed_data, graph, exec_order, cache, callbacks, executed, wrote,
                   host_writes, call, parser>>

\* run_workflow, lines 85-118: one iteration of the loop over input_sources
\* (one read of the cache), or, the loop being over, on to the execution
RunWorkflowGather(t) ==
    /\ th[t].pc = "rw_gather"
    /\ LET l == th[t] IN
       IF l.pending = << >>
       THEN /\ th' = [th EXCEPT ![t].pc = "rw_exec"]
            /\ UNCHANGED callbacks
       ELSE LET target_input_name == Head(l.pending)[1]
                source_box_id == Head(l.pending)[2]
                cached_output == get_cached_output(cache, source_box_id)
            IN  IF cached_output = None
                THEN /\ Emit(t, l.box_id, "error",
                             ErrorData(<<"Missing cached output from upstream box '",
                                         source_box_id, "' for input '",
                                         target_input_name, "'.">>))
                     /\ th' = [th EXCEPT ![t] = Returned(@, FALSE)]
                ELSE /\ th' = [th EXCEPT ![t] =
                                 [@ EXCEPT !.input_data =
                                              BindInput(@, target_input_name,
                                                        cached_output),
                                           !.pending = Tail(@)]]
                     /\ UNCHANGED callbacks
    /\ UNCHANGED <<parsed_data, graph, exec_order, cache, executed, wrote, host_writes, call, parser>>

\* Logic "poke" writes into the mappings it is given and returns a new
\* empty one:
\*     def execute(**kw):
\*         for v in kw.values(): v['n'] = 0
\*         return {}
\* A mapping after that logic has had it as an argument
Poked(v) == IF IsDict(v) THEN Dict(SetKey(v.items, "n", PyInt(0))) ELSE v
PokedItems(items) == [k \in DOMAIN items |-> Poked(items[k])]

\* The boxes whose cached output is an argument of the logic of the box of
\* locals l in a full run (lines 97-101: the object get_cached_output
\* returned is bound to the input, and cache_manager.py:27 returns the
\* stored object itself)
ArgSources(g, l) == {p[2] : p \in SeqToSet(g.data[l.box_id].input_sources)}

\* The cache after the logic of the box of locals l has run. Nothing is
\* copied between the cache and the logic: in a full run, which starts from
\* an empty cache, the arguments are the stored outputs of the box's
\* sources, and each of them is also the value an earlier consumer of the
\* same source has among its stored inputs (update_cache stores the
\* input_data object, cache_manager.py:61-64); in a single run the
\* arguments are the values of the box's own stored inputs.
AfterLogic(c, g, l) ==
    IF l.code_string # "poke" THEN c
    ELSE IF l.fn = "run_workflow"
    THEN [b \in DOMAIN c |->
            [output |-> IF b \in ArgSources(g, l) THEN Poked(c[b].output)
                        ELSE c[b].output,
             inputs |-> Dict([k \in DOMAIN c[b].inputs.items |->
                                IF /\ HasNode(g, b)
                                   /\ \E s \in ArgSources(g, l) :
                                         <<k, s>> \in SeqToSet(g.data[b].input_sources)
                                THEN Poked(c[b].inputs.items[k])
                                ELSE c[b].inputs.items[k]])]]
    ELSE [b \in DOMAIN c |->
            IF b = l.box_id /\ c[b].inputs = l.input_data
            THEN [output |-> c[b].output,
                  inputs |-> Dict(PokedItems(c[b].inputs.items))]
            ELSE c[b]]

\* Lines 122 and 183: execute_code runs the box's logic
ExecStep(t, next) ==
    \E choice \in Choices :
        LET l == th[t] IN
        /\ th' = [th EXCEPT ![t] =
                    [@ EXCEPT !.result = execute_code(l.box_id, l.code_string,
                                                      l.input_data, choice),
                              !.input_data = IF l.code_string = "poke"
                                             THEN Dict(PokedItems(@.items)) ELSE @,
                              !.pc = next]]
        /\ cache' = AfterLogic(cache, l.graph, l)
        /\ executed' = [executed EXCEPT ![t] =
                          Append(@, [box_id |-> l.box_id, inputs |-> l.input_data])]

RunWorkflowExec(t) ==
    /\ th[t].pc = "rw_exec"
    /\ ExecStep(t, "rw_result")
    /\ UNCHANGED <<parsed_data, graph, exec_order, callbacks, wrote, host_writes, call, parser>>

\* A full run that reports a failed box and goes on to the next one
ResultStepNoBreak(t, next) ==
    LET l == th[t] IN
    IF l.result.success
    THEN /\ cache' = update_cache(cache, l.box_id, l.result.output, l.input_data)
         /\ wrote' = [wrote EXCEPT ![t] = Append(@, l.box_id)]
         /\ th' = [th EXCEPT ![t].pc = next]
         /\ UNCHANGED callbacks
    ELSE /\ Emit(t, l.box_id, "error", Dict([message |-> l.result.error]))
         /\ th' = [th EXCEPT ![t] =
                     IF next = "rw_notify"
                     THEN [@ EXCEPT !.pc = "rw_loop", !.idx = @ + 1, !.result = None]
                     ELSE Returned(@, FALSE)]
         /\ UNCHANGED <<cache, wrote>>

\* A run that executes a box a second time when its first execution failed
ResultStepRetry(t, next) ==
    LET l == th[t] IN
    IF l.result.success
    THEN /\ cache' = update_cache(cache, l.box_id, l.result.output, l.input_data)
         /\ wrote' = [wrote EXCEPT ![t] = Append(@, l.box_id)]
         /\ th' = [th EXCEPT ![t].pc = next]
         /\ UNCHANGED callbacks
    ELSE IF next = "rw_notify"
            /\ Cardinality({j \in 1..Len(executed[t]) :
                               executed[t][j].box_id = l.box_id}) = 1
    THEN /\ th' = [th EXCEPT ![t] = [@ EXCEPT !.pc = "rw_exec", !.result = None]]
         /\ UNCHANGED <<cache, wrote, callbacks>>
    ELSE /\ Emit(t, l.box_id, "error", Dict([message |-> l.result.error]))
         /\ th' = [th EXCEPT ![t] = Returned(@, FALSE)]
         /\ UNCHANGED <<cache, wrote>>

\* A run that caches an empty output for a box whose logic failed
ResultStepCachesFailure(t, next) ==
    LET l == th[t] IN
    IF l.result.success
    THEN /\ cache' = update_cache(cache, l.box_id, l.result.output, l.input_data)
         /\ wrote' = [wrote EXCEPT ![t] = Append(@, l.box_id)]
         /\ th' = [th EXCEPT ![t].pc = next]
         /\ UNCHANGED callbacks
    ELSE /\ Emit(t, l.box_id, "error", Dict([message |-> l.result.error]))
         /\ th' = [th EXCEPT ![t] = Returned(@, FALSE)]
         /\ cache' = update_cache(cache, l.box_id, EmptyDict, l.input_data)
         /\ UNCHANGED wrote

\* Lines 125-128 / 131-134 and 186-190 / 194-196: a success is cached, a
\* failure is reported and ends the run
ResultStep(t, next) ==
    LET l == th[t] IN
    IF l.result.success
    THEN /\ cache' = update_cache(cache, l.box_id, l.result.output, l.input_data)
         /\ wrote' = [wrote EXCEPT ![t] = Append(@, l.box_id)]
         /\ th' = [th EXCEPT ![t].pc = next]
         /\ UNCHANGED callbacks
    ELSE /\ Emit(t, l.box_id, "error", Dict([message |-> l.result.error]))
         /\ th' = [th EXCEPT ![t] = Returned(@, FALSE)]
         /\ UNCHANGED <<cache, wrote>>

RunWorkflowResult(t) ==
    /\ th[t].pc = "rw_result"
    /\ ResultStep(t, "rw_notify")
    /\ UNCHANGED <<parsed_data, graph, exec_order, executed, host_writes, call, parser>>

\* A notification after which the loop stays at the same box
RunWorkflowNotifyRepeat(t) ==
    /\ th[t].pc = "rw_notify"
    /\ Emit(t, th[t].box_id, "success", th[t].result.output)
    /\ th' = [th EXCEPT ![t] = [@ EXCEPT !.pc = "rw_loop",
                                         !.code_string = "", !.input_data = EmptyDict,
                                         !.result = None]]
    /\ UNCHANGED <<parsed_data, graph, exec_order, cache, executed, wrote, host_writes, call, parser>>

\* run_workflow, line 129: the success callback, then the next iteration
RunWorkflowNotify(t) ==
    /\ th[t].pc = "rw_notify"
    /\ Emit(t, th[t].box_id, "success", th[t].result.output)
    /\ th' = [th EXCEPT ![t] = [@ EXCEPT !.pc = "rw_loop", !.idx = @ + 1,
                                         !.code_string = "", !.input_data = EmptyDict,
                                         !.result = None]]
    /\ UNCHANGED <<parsed_data, graph, exec_order, cache, executed, wrote, host_writes, call, parser>>

\* The box ids a single run may be asked for
SingleIds == Nodes(graph) \cup {UnknownId}

\* run_single_box, lines 156-157
RunSingleBoxStart(t, box_id) ==
    /\ ~Running(t)
    /\ graph # Unset
    /\ th' = [th EXCEPT ![t] =
                [Idle EXCEPT !.pc = "rs_node", !.fn = "run_single_box",
                             !.graph = graph,
                             !.box_id = box_id,
                             !.entry = IF box_id \in DOMAIN cache
                                       THEN cache[box_id] ELSE None,
                             !.after_failed_order =
                                 /\ th[t].pc = "done"
                                 /\ th[t].fn = "run_workflow"
                                 /\ th[t].order = None]]
    /\ callbacks' = [callbacks EXCEPT ![t] = <<Callback(box_id, "running", None)>>]
    /\ executed' = [executed EXCEPT ![t] = << >>]
    /\ wrote' = [wrote EXCEPT ![t] = << >>]
    /\ UNCHANGED <<parsed_data, graph, exec_order, cache, host_writes, call, parser>>

RunSingleBoxNode(t) ==
    /\ th[t].pc = "rs_node"
    /\ NodeStep(t, "rs_inputs")
    /\ UNCHANGED <<parsed_data, graph, exec_order, cache, executed, wrote, host_writes, call, parser>>

\* A single run that takes missing cached inputs for no inputs
RunSingleBoxInputsDefault(t) ==
    /\ th[t].pc = "rs_inputs"
    /\ LET input_data == get_cached_inputs(cache, th[t].box_id) IN
       th' = [th EXCEPT ![t] =
                [@ EXCEPT !.input_data = IF input_data = None THEN EmptyDict
                                         ELSE input_data,
                          !.pc = "rs_exec"]]
    /\ UNCHANGED <<parsed_data, graph, exec_order, cache, callbacks, executed, wrote,
                   host_writes, call, parser>>

\* The inputs a full run would gather now: every connected input bound to
\* the output cached for its source, inputs whose source has none left out
RECURSIVE Gathered(_, _, _)
Gathered(input_data, pending, c) ==
    IF pending = << >> THEN input_data
    ELSE LET cached_output == get_cached_output(c, Head(pending)[2])
         IN  Gathered(IF cached_output = None THEN input_data
                      ELSE BindInput(input_data, Head(pending)[1], cached_output),
                      Tail(pending), c)

\* A single run that gathers its inputs from the upstream outputs
RunSingleBoxInputsUpstream(t) ==
    /\ th[t].pc = "rs_inputs"
    /\ LET input_data == get_cached_inputs(cache, th[t].box_id) IN
       IF input_data = None
       THEN /\ Emit(t, th[t].box_id, "error",
                    ErrorData(<<"No cached inputs available for single run.">>))
            /\ th' = [th EXCEPT ![t] = Returned(@, FALSE)]
       ELSE /\ th' = [th EXCEPT ![t] =
                        [@ EXCEPT !.input_data =
                                     Gathered(input_data, th[t].pending, cache),
                                  !.pc = "rs_exec"]]
            /\ UNCHANGED callbacks
    /\ UNCHANGED <<parsed_data, graph, exec_order, cache, executed, wrote, host_writes, call, parser>>

\* A single run that takes cached inputs that are an empty mapping for none
RunSingleBoxInputsFalsy(t) ==
    /\ th[t].pc = "rs_inputs"
    /\ LET input_data == get_cached_inputs(cache, th[t].box_id) IN
       IF input_data = None \/ input_data = EmptyDict
       THEN /\ Emit(t, th[t].box_id, "error",
                    ErrorData(<<"No cached inputs available for single run.">>))
            /\ th' = [th EXCEPT ![t] = Returned(@, FALSE)]
       ELSE /\ th' = [th EXCEPT ![t] = [@ EXCEPT !.input_data = input_data,
                                                 !.pc = "rs_exec"]]
            /\ UNCHANGED callbacks
    /\ UNCHANGED <<parsed_data, graph, exec_order, cache, executed, wrote, host_writes,
                   call, parser>>

\* run_single_box, lines 171-180: the inputs of the box's last success
RunSingleBoxInputs(t) ==
    /\ th[t].pc = "rs_inputs"
    /\ LET input_data == get_cached_inputs(cache, th[t].box_id) IN
       IF input_data = None
       THEN /\ Emit(t, th[t].box_id, "error",
                    ErrorData(<<"No cached inputs available for single run.">>))
            /\ th' = [th EXCEPT ![t] = Returned(@, FALSE)]
       ELSE /\ th' = [th EXCEPT ![t] = [@ EXCEPT !.input_data = input_data,
                                                 !.pc = "rs_exec"]]
            /\ UNCHANGED callbacks
    /\ UNCHANGED <<parsed_data, graph, exec_order, cache, executed, wrote, host_writes, call, parser>>

RunSingleBoxExec(t) ==
    /\ th[t].pc = "rs_exec"
    /\ ExecStep(t, "rs_result")
    /\ UNCHANGED <<parsed_data, graph, exec_order, callbacks, wrote, host_writes, call, parser>>

\* A single run that caches its new output without the inputs it ran with
RunSingleBoxResultFresh(t) ==
    /\ th[t].pc = "rs_result"
    /\ LET l == th[t] IN
       IF l.result.success
       THEN /\ cache' = update_cache(cache, l.box_id, l.result.output, EmptyDict)
            /\ wrote' = [wrote EXCEPT ![t] = Append(@, l.box_id)]
            /\ th' = [th EXCEPT ![t].pc = "rs_notify"]
            /\ UNCHANGED callbacks
       ELSE /\ Emit(t, l.box_id, "error", Dict([message |-> l.result.error]))
            /\ th' = [th EXCEPT ![t] = Returned(@, FALSE)]
            /\ UNCHANGED <<cache, wrote>>
    /\ UNCHANGED <<parsed_data, graph, exec_order, executed, host_writes, call, parser>>

\* A single run that drops the box's entry when its logic fails
RunSingleBoxResultInvalidate(t) ==
    /\ th[t].pc = "rs_result"
    /\ LET l == th[t] IN
       IF l.result.success
       THEN /\ cache' = update_cache(cache, l.box_id, l.result.output, l.input_data)
            /\ wrote' = [wrote EXCEPT ![t] = Append(@, l.box_id)]
            /\ th' = [th EXCEPT ![t].pc = "rs_notify"]
            /\ UNCHANGED callbacks
       ELSE /\ Emit(t, l.box_id, "error", Dict([message |-> l.result.error]))
            /\ th' = [th EXCEPT ![t] = Returned(@, FALSE)]
            /\ cache' = clear_cache(cache, PyStr(l.box_id))
            /\ UNCHANGED wrote
    /\ UNCHANGED <<parsed_data, graph, exec_order, executed, host_writes, call, parser>>

\* run_single_box, lines 186-196
RunSingleBoxResult(t) ==
    /\ th[t].pc = "rs_result"
    /\ ResultStep(t, "rs_notify")
    /\ UNCHANGED <<parsed_data, graph, exec_order, executed, host_writes, call, parser>>

\* run_single_box, lines 191-192
RunSingleBoxNotify(t) ==
    /\ th[t].pc = "rs_notify"
    /\ Emit(t, th[t].box_id, "success", th[t].result.output)
    /\ th' = [th EXCEPT ![t] = Returned(@, TRUE)]
    /\ UNCHANGED <<parsed_data, graph, exec_order, cache, executed, wrote, host_writes, call, parser>>

\* One step of the run thread t executes
RunStep(t) ==
    \/ RunWorkflowOrder(t)
    \/ RunWorkflowLoop(t)
    \/ RunWorkflowNode(t)
    \/ RunWorkflowGather(t)
    \/ RunWorkflowExec(t)
    \/ RunWorkflowResult(t)
    \/ RunWorkflowNotify(t)
    \/ RunSingleBoxNode(t)
    \/ RunSingleBoxInputs(t)
    \/ RunSingleBoxExec(t)
    \/ RunSingleBoxResult(t)
    \/ RunSingleBoxNotify(t)

\* ------------------------------------------------------------------ host
\* The host clears the cache itself: cache.clear_cache(box_id) as in
\* workflow_runner.py:250, cache.clear_cache() as in main.py:63. A thread
\* that had returned is idle again afterwards and its run's records are dropped.
Forget(f, empty) == [t \in Threads |-> IF th[t].pc = "done" THEN empty ELSE f[t]]

HostClearCache(arg) ==
    /\ cache' = clear_cache(cache, arg)
    /\ th' = Forget(th, Idle)
    /\ callbacks' = Forget(callbacks, << >>)
    /\ executed' = Forget(executed, << >>)
    /\ wrote' = Forget(wrote, << >>)
    /\ UNCHANGED <<parsed_data, graph, exec_order, host_writes, call, parser>>

\* The host writes an entry itself (CacheManager is a public class).
HostOutput == Dict([n |-> PyInt(7)])
HostUpdateCache(box_id) ==
    /\ host_writes < MaxHostWrites
    /\ host_writes' = host_writes + 1
    /\ cache' = update_cache(cache, box_id, HostOutput, EmptyDict)
    /\ th' = Forget(th, Idle)
    /\ callbacks' = Forget(callbacks, << >>)
    /\ executed' = Forget(executed, << >>)
    /\ wrote' = Forget(wrote, << >>)
    /\ UNCHANGED <<parsed_data, graph, exec_order, call, parser>>

ClearArgs == {None} \cup {PyStr(b) : b \in Nodes(graph)}

\* No run is in progress
Quiet == \A t \in Threads : ~Running(t)

\* Runs one at a time, on thread 1; the host clears the cache between runs
Next ==
    \/ Quiet /\ RunWorkflowStart(1)
    \/ \E b \in SingleIds : Quiet /\ RunSingleBoxStart(1, b)
    \/ RunStep(1)
    \/ \E a \in ClearArgs : Quiet /\ HostClearCache(a)

Spec == Init /\ [][Next]_vars

\* Full runs, one at a time, over boxes whose logic may write into its
\* arguments
FullCodes == {"ok", "poke", "raise"}
InitFull ==
    /\ \E n \in 1..MaxBoxes :
          IsDefinition(parsed_data, n, FullCodes, InputNames, MaxConns)
    /\ graph = build_graph(parsed_data)
    /\ InitCommon

NextFull ==
    \/ Quiet /\ RunWorkflowStart(1)
    \/ RunWorkflowOrder(1)
    \/ RunWorkflowLoop(1)
    \/ RunWorkflowNode(1)
    \/ RunWorkflowGather(1)
    \/ RunWorkflowExec(1)
    \/ RunWorkflowResult(1)
    \/ RunWorkflowNotify(1)

SpecFull == InitFull /\ [][NextFull]_vars

\* As Spec, and the host also writes cache entries between runs
NextHost ==
    \/ Next
    \/ \E b \in SingleIds : Quiet /\ HostUpdateCache(b)

SpecHost == Init /\ [][NextHost]_vars

\* main.py starts every requested run on a thread of its own and takes no
\* lock: the steps of two runs interleave, and the host (load_workflow,
\* main.py:63) clears the cache while runs are in progress.
InitConc ==
    /\ \E n \in 1..MaxConcBoxes :
          IsDefinition(parsed_data, n, RunCodes, InputNames, MaxConcConns)
    /\ graph = build_graph(parsed_data)
    /\ InitCommon

NextConc ==
    \/ \E t \in Threads : RunWorkflowStart(t)
    \/ \E t \in Threads : \E b \in SingleIds : RunSingleBoxStart(t, b)
    \/ \E t \in Threads : RunStep(t)
    \/ \E a \in ClearArgs : HostClearCache(a)

SpecConc == InitConc /\ [][NextConc]_vars

\* Two requests of the host (main.py:83-116), each run on a thread of its
\* own, nothing else touching the cache
NextRuns ==
    \/ \E t \in Threads : RunWorkflowStart(t)
    \/ \E t \in Threads : \E b \in SingleIds : RunSingleBoxStart(t, b)
    \/ \E t \in Threads : RunStep(t)

SpecRuns == InitConc /\ [][NextRuns]_vars

\* Api.load_workflow, main.py:41-81, called by the host while the thread of
\* a requested run may be executing. The file's definition is parsed and
\* built; a definition without boxes, a build that returns None, an empty
\* graph and an exception all end in an error response and change nothing;
\* otherwise the graph is stored and the cache is cleared. A run in
\* progress keeps the graph it was started with.
MaxLoadBoxes == 2
MaxLoadConns == 1
LoadWorkflow ==
    /\ \E n \in 0..MaxLoadBoxes :
          IsDefinition(parsed_data', n, {"ok"}, {"x"}, MaxLoadConns)
    /\ LET g == build_graph(parsed_data') IN
       IF g.tag # "DiGraph" \/ g.nodes = << >>
       THEN /\ call' = Call("load_workflow", None, None, None, None, cache, None,
                            Dict([error |-> PyStr("Failed to build workflow graph from the Markdown file.")]))
            /\ UNCHANGED <<graph, cache>>
       ELSE /\ graph' = g
            /\ cache' = clear_cache(cache, None)
            /\ call' = Call("load_workflow", None, None, None, None, cache, None,
                            Dict([success |-> PyBool(TRUE)]))
    /\ UNCHANGED <<exec_order, th, callbacks, executed, wrote, host_writes, parser>>

\* One run at a time is requested (main.py:83-116) and executes on a
\* thread of its own; the host loads workflows meanwhile
NextLoad ==
    \/ RunWorkflowStart(1)
    \/ \E b \in SingleIds : RunSingleBoxStart(1, b)
    \/ RunStep(1)
    \/ LoadWorkflow

SpecLoad == InitConc /\ [][NextLoad]_vars

\* Runs one at a time as in Spec; a run that has started keeps being
\* scheduled, and every invoked logic returns (ExecStep is one step)
SpecLive == Init /\ [][Next]_vars /\ WF_vars(RunStep(1))

\* ----------------------------------------------------------- direct calls
\* cache_manager.py and code_executor.py __main__: the functions called one
\* after the other on one CacheManager
CacheIds == {"", "a", "b"}
CacheValues == {EmptyDict, Dict([n |-> PyInt(1)]), PyList(<< >>), None}
ExecIds == {"a"}
ExecInputs == {EmptyDict, Dict([x |-> Dict([n |-> PyInt(1)])]),
               Dict([x |-> Dict([n |-> PyInt(1)]), y |-> EmptyDict])}

Untouched == <<parsed_data, graph, exec_order, th, callbacks, executed, wrote,
               host_writes, parser>>

CallUpdateCache(box_id, output_data, input_data) ==
    /\ cache' = update_cache(cache, box_id, output_data, input_data)
    /\ call' = Call("update_cache", box_id, None, output_data, input_data, cache,
                    None, None)
    /\ UNCHANGED Untouched

CallClearCache(arg) ==
    /\ cache' = clear_cache(cache, arg)
    /\ call' = Call("clear_cache", arg, None, None, None, cache, None, None)
    /\ UNCHANGED Untouched

CallGetCachedOutput(box_id) ==
    /\ call' = Call("get_cached_output", box_id, None, None, None, cache, None,
                    get_cached_output(cache, box_id))
    /\ UNCHANGED cache
    /\ UNCHANGED Untouched

CallGetCachedInputs(box_id) ==
    /\ call' = Call("get_cached_inputs", box_id, None, None, None, cache, None,
                    get_cached_inputs(cache, box_id))
    /\ UNCHANGED cache
    /\ UNCHANGED Untouched

CallGetAllCacheKeys ==
    /\ call' = Call("get_all_cache_keys", None, None, None, None, cache, None,
                    get_all_cache_keys(cache))
    /\ UNCHANGED cache
    /\ UNCHANGED Untouched

CallExecuteCode(box_id, code_string, input_data) ==
    \E choice \in Choices :
        /\ call' = Call("execute_code", box_id, code_string, None, input_data, None,
                        RunLogic(code_string, input_data, choice),
                        execute_code(box_id, code_string, input_data, choice))
        /\ UNCHANGED cache
        /\ UNCHANGED Untouched

InitUnits ==
    /\ parsed_data = ParsedData(<< >>, << >>)
    /\ graph = Unset
    /\ InitCommon

NextUnits ==
    \/ \E b \in CacheIds : \E o \in CacheValues : \E i \in CacheValues :
          CallUpdateCache(b, o, i)
    \/ \E a \in {None} \cup {PyStr(b) : b \in CacheIds} : CallClearCache(a)
    \/ \E b \in CacheIds : CallGetCachedOutput(b)
    \/ \E b \in CacheIds : CallGetCachedInputs(b)
    \/ CallGetAllCacheKeys
    \/ \E b \in ExecIds : \E c \in CodeStrings : \E i \in ExecInputs :
          CallExecuteCode(b, c, i)

SpecUnits == InitUnits /\ [][NextUnits]_vars

\* ============================================================== properties
\* The nodes reachable from the set S along edges (S included)
RECURSIVE ReachFrom(_, _)
ReachFrom(g, S) ==
    LET T == S \cup {v \in Nodes(g) : \E u \in S : HasEdge(g, u, v)}
    IN  IF T = S THEN S ELSE ReachFrom(g, T)

\* n lies on a cycle: it is reachable from one of its own successors
OnCycle(g, n) == n \in ReachFrom(g, {v \in Nodes(g) : HasEdge(g, n, v)})
HasCycle(g) == \E n \in Nodes(g) : OnCycle(g, n)

\* The positions of x in the sequence s
Positions(s, x) == {i \in 1..Len(s) : s[i] = x}

\* u occurs in s, v occurs in s, and every occurrence of u is before every
\* occurrence of v
Before(s, u, v) ==
    /\ Positions(s, u) # {}
    /\ Positions(s, v) # {}
    /\ \A i \in Positions(s, u) : \A j \in Positions(s, v) : i < j

\* C1: for an acyclic graph built by build_graph, get_execution_order
\* returns a list, and for every edge u->v of the graph u is in the list at a
\* strictly smaller index than v.
C1_OrderRespectsEdges ==
    (graph # Unset /\ IsGraph(graph) /\ exec_order # Unset /\ ~HasCycle(graph))
        => /\ exec_order.tag = "list"
           /\ \A e \in Edges(graph) : Before(exec_order.items, e[1], e[2])

\* C1 witness: the diamond A->B, A->C, B->D, C->D has been ordered
C1_Witness ==
    /\ graph # Unset
    /\ IsGraph(graph)
    /\ Edges(graph) = {<<"A", "B">>, <<"A", "C">>, <<"B", "D">>, <<"C", "D">>}
    /\ exec_order.tag = "list"
    /\ Before(exec_order.items, "A", "B")
    /\ Before(exec_order.items, "A", "C")
    /\ Before(exec_order.items, "B", "D")
    /\ Before(exec_order.items, "C", "D")

\* C2: for a graph with a cycle (a self-loop included) get_execution_order
\* returns None, never a list of nodes.
C2_CycleGivesNoOrder ==
    (graph # Unset /\ IsGraph(graph) /\ exec_order # Unset /\ HasCycle(graph))
        => exec_order = None

\* C2 witness: the two-node cycle A->B, B->A next to a self-loop on C has
\* been given to get_execution_order
C2_Witness ==
    /\ graph # Unset
    /\ IsGraph(graph)
    /\ Edges(graph) = {<<"A", "B">>, <<"B", "A">>, <<"C", "C">>}
    /\ exec_order = None

\* ------------------------------------------------------------ runner claims
IsFull(t) == th[t].fn = "run_workflow"
IsSingle(t) == th[t].fn = "run_single_box"
Done(t) == th[t].pc = "done"
\* The execution order of thread t's run, empty while there is none
OrderOf(t) == IF th[t].order.tag = "list" THEN th[t].order.items ELSE << >>
CallbackBoxes(t) == {callbacks[t][j].box_id : j \in 1..Len(callbacks[t])}
ExecutedBoxes(t) == {executed[t][j].box_id : j \in 1..Len(executed[t])}
StatusesOf(t, box_id) ==
    {callbacks[t][j].status : j \in {i \in 1..Len(callbacks[t]) :
                                        callbacks[t][i].box_id = box_id}}
ErrorsAt(t) == {j \in 1..Len(callbacks[t]) : callbacks[t][j].status = "error"}
\* The boxes after box_id in the order o
LaterBoxes(o, box_id) ==
    {o[m] : m \in {i \in 1..Len(o) : \E p \in Positions(o, box_id) : i > p}}
\* The callbacks of thread t as <<box, status>> pairs
Trace(t) == [j \in 1..Len(callbacks[t]) |->
                <<callbacks[t][j].box_id, callbacks[t][j].status>>]
InputSources(box_id) == graph.data[box_id].input_sources
CodeOf(box_id) == graph.data[box_id].code
NoCachedInputs == ErrorData(<<"No cached inputs available for single run.">>)
MissingOutput(source_box_id, target_input_name) ==
    ErrorData(<<"Missing cached output from upstream box '", source_box_id,
                "' for input '", target_input_name, "'.">>)

\* C3: in a full run, a box that fails has received 'running' and then
\* 'error', its error is the last callback of the run, no box later in the
\* order has a callback or has had its logic invoked, and the run has
\* returned False.
C3_FailFast ==
    \A t \in Threads :
        (IsFull(t) /\ ErrorsAt(t) # {}) =>
            LET cb == callbacks[t]
                n == Len(cb)
                failed == cb[n].box_id
            IN  /\ ErrorsAt(t) = {n}
                /\ n >= 2
                /\ cb[n - 1] = Callback(failed, "running", None)
                /\ failed \in SeqToSet(OrderOf(t))
                /\ CallbackBoxes(t) \cap LaterBoxes(OrderOf(t), failed) = {}
                /\ ExecutedBoxes(t) \cap LaterBoxes(OrderOf(t), failed) = {}
                /\ Done(t)
                /\ th[t].ret = PyBool(FALSE)

\* C3 witness: A->B->C with B failing has run: A running, A success,
\* B running, B error, nothing for C, and False
C3_Witness ==
    /\ Edges(graph) = {<<"A", "B">>, <<"B", "C">>}
    /\ CodeOf("B") = "raise"
    /\ IsFull(1)
    /\ Done(1)
    /\ th[1].ret = PyBool(FALSE)
    /\ Trace(1) = << <<"A", "running">>, <<"A", "success">>,
                     <<"B", "running">>, <<"B", "error">> >>
    /\ ExecutedBoxes(1) = {"A", "B"}

\* C4: the callbacks of a full run are, box by box in execution order, one
\* 'running' with no data directly followed by one 'success' or 'error' of
\* the same box; no box has two terminal callbacks.
C4_CallbackProtocol ==
    \A t \in Threads :
        IsFull(t) =>
            LET cb == callbacks[t]
                o == OrderOf(t)
            IN  /\ Len(cb) <= 2 * Len(o)
                /\ \A j \in 1..Len(cb) :
                      IF j % 2 = 1
                      THEN cb[j] = Callback(o[(j + 1) \div 2], "running", None)
                      ELSE /\ cb[j].box_id = o[j \div 2]
                           /\ cb[j].status \in {"success", "error"}
                /\ \A i, j \in 1..Len(cb) :
                      (/\ i # j
                       /\ cb[i].status # "running"
                       /\ cb[j].status # "running") => cb[i].box_id # cb[j].box_id
                /\ Done(t) => Len(cb) % 2 = 0

\* C4 witness: a full run over three boxes has ended with six callbacks
C4_Witness ==
    /\ IsFull(1)
    /\ Done(1)
    /\ Len(callbacks[1]) = 6
    /\ Cardinality(CallbackBoxes(1)) = 3

\* Every box of the graph has a 'success' callback in thread t's run
AllSucceeded(t) == \A n \in Nodes(graph) : "success" \in StatusesOf(t, n)

\* C5: run_workflow returns True exactly when an execution order was
\* computed and every box of the graph had a 'success' callback, which is
\* exactly when the order was computed and no 'error' callback was issued;
\* otherwise it returns False.
C5_ReturnValue ==
    \A t \in Threads :
        (IsFull(t) /\ Done(t)) =>
            /\ th[t].ret = PyBool(TRUE) <=> (th[t].order.tag = "list" /\ AllSucceeded(t))
            /\ th[t].ret = PyBool(TRUE) <=> (th[t].order.tag = "list" /\ ErrorsAt(t) = {})
            /\ th[t].ret # PyBool(TRUE) => th[t].ret = PyBool(FALSE)

\* C5 witness: a full run over three boxes has returned True
C5_Witness ==
    /\ IsFull(1)
    /\ Done(1)
    /\ th[1].ret = PyBool(TRUE)
    /\ Cardinality(Nodes(graph)) = 3
    /\ AllSucceeded(1)

\* C7: in a full run, the mapping passed to the executor for box v has
\* exactly the keys of v's input_sources, and each key maps to the whole
\* cached output mapping of its source.
C7_InputsAreSourceOutputs ==
    \A t \in Threads :
        IsFull(t) =>
            \A j \in 1..Len(executed[t]) :
                LET e == executed[t][j]
                    src == InputSources(e.box_id)
                IN  /\ IsDict(e.inputs)
                    /\ DOMAIN e.inputs.items = PairsKeys(src)
                    /\ \A k \in PairsKeys(src) :
                          /\ IsDict(e.inputs.items[k])
                          /\ e.inputs.items[k] =
                                get_cached_output(cache, PairsValue(src, k))

\* C7 witness: in one full run a box that declares x and has no connection
\* was executed with the empty mapping, and a box fed on y alone was
\* executed with the single key y bound to the whole output of its source
C7_Witness ==
    /\ IsFull(1)
    /\ \E i, j \in 1..Len(executed[1]) :
          /\ executed[1][i].inputs = EmptyDict
          /\ graph.data[executed[1][i].box_id].inputs = <<"x">>
          /\ DOMAIN executed[1][j].inputs.items = {"y"}
          /\ executed[1][j].inputs.items["y"] = Dict([n |-> PyInt(1)])

\* C8: after a full run that returned True the cached ids are the nodes of
\* the graph, each box's cached output is the data of its 'success'
\* callback, and each cached input k of a box is the cached output of the
\* source of k.
C8_CacheAfterSuccess ==
    \A t \in Threads :
        (IsFull(t) /\ Done(t) /\ th[t].ret = PyBool(TRUE)) =>
            /\ get_all_cache_keys(cache) = Nodes(graph)
            /\ \A v \in Nodes(graph) :
                  /\ \E j \in 1..Len(callbacks[t]) :
                        callbacks[t][j] =
                            Callback(v, "success", get_cached_output(cache, v))
                  /\ \A j \in 1..Len(callbacks[t]) :
                        (callbacks[t][j].box_id = v /\ callbacks[t][j].status = "success")
                            => callbacks[t][j].data = get_cached_output(cache, v)
                  /\ DOMAIN get_cached_inputs(cache, v).items = PairsKeys(InputSources(v))
                  /\ \A k \in PairsKeys(InputSources(v)) :
                        get_cached_inputs(cache, v).items[k] =
                            get_cached_output(cache, PairsValue(InputSources(v), k))

\* C8 witness: the chain A->B->C has run to the end and returned True
C8_Witness ==
    /\ IsFull(1)
    /\ Done(1)
    /\ th[1].ret = PyBool(TRUE)
    /\ Edges(graph) = {<<"A", "B">>, <<"B", "C">>}
    /\ get_cached_output(cache, "C") = Dict([n |-> PyInt(3)])

\* What C6 says of thread t; boxes is the set of boxes for which the single
\* run that follows the failed full run is said to report 'no cached inputs'.
NoOrderRun(t, boxes) ==
    \* the cache is cleared before the order is computed
    /\ (IsFull(t) /\ th[t].pc = "rw_order") => cache = EmptyCache
    \* no order: no callback, no logic invoked, False, and an empty cache
    /\ (IsFull(t) /\ Done(t) /\ th[t].order = None) =>
          /\ callbacks[t] = << >>
          /\ executed[t] = << >>
          /\ wrote[t] = << >>
          /\ th[t].ret = PyBool(FALSE)
          /\ cache = EmptyCache
    \* the single run that follows
    /\ (IsSingle(t) /\ Done(t) /\ th[t].after_failed_order /\ th[t].box_id \in boxes) =>
          /\ callbacks[t] = <<Callback(th[t].box_id, "running", None),
                              Callback(th[t].box_id, "error", NoCachedInputs)>>
          /\ executed[t] = << >>
          /\ th[t].ret = PyBool(FALSE)
          /\ cache = EmptyCache

\* C6 as stated: a full run on a graph without execution order issues no
\* callback, invokes no logic, returns False and leaves the cache empty,
\* clearing it before the order is computed; a single run of any box of the
\* graph that follows fails with 'no cached inputs'.
C6_Original == \A t \in Threads : NoOrderRun(t, Nodes(graph))

\* C6 amended: as stated, the single run that follows failing with 'no
\* cached inputs' for every box of the graph that has logic (a box without
\* logic fails with 'Code not found' before the cache is read).
C6_NoOrderRun ==
    \A t \in Threads : NoOrderRun(t, {b \in Nodes(graph) : CodeOf(b) # ""})

\* C6 witness: the host had written a cache entry, a full run found no
\* order, and the single run of a box with logic that followed has failed
C6_Witness ==
    /\ host_writes = 1
    /\ IsSingle(1)
    /\ Done(1)
    /\ th[1].after_failed_order
    /\ th[1].box_id \in Nodes(graph)
    /\ CodeOf(th[1].box_id) # ""
    /\ th[1].ret = PyBool(FALSE)
    /\ cache = EmptyCache

\* Thread t is about to read, for the box it processes, the output of a
\* source that is not in the cache
SourceMissing(t) ==
    /\ th[t].pc = "rw_gather"
    /\ th[t].pending # << >>
    /\ get_cached_output(cache, Head(th[t].pending)[2]) = None

\* The last callback of thread t's run reports a missing upstream output
EndedOnMissing(t) ==
    /\ IsFull(t)
    /\ callbacks[t] # << >>
    /\ \E p \in Len(callbacks[t])..Len(callbacks[t]) :
          \E src \in DOMAIN graph.data : \E k \in InputNames :
              callbacks[t][p] = Callback(callbacks[t][p].box_id, "error",
                                         MissingOutput(src, k))

\* C9: in a full run, when the cached output of a source of box v is absent
\* as v is processed, the run's step emits 'error' for v with a message that
\* names the source and the target input, invokes no logic, writes nothing
\* to the cache and returns False; the error is the run's last callback, v
\* was not executed and not cached by the run, and no later box has a
\* callback.
C9_MissingUpstream ==
    /\ [][\A t \in Threads :
            (SourceMissing(t) /\ th'[t] # th[t]) =>
                /\ callbacks'[t] =
                      Append(callbacks[t],
                             Callback(th[t].box_id, "error",
                                      MissingOutput(Head(th[t].pending)[2],
                                                    Head(th[t].pending)[1])))
                /\ <<Head(th[t].pending)[1], Head(th[t].pending)[2]>>
                      \in SeqToSet(InputSources(th[t].box_id))
                /\ executed'[t] = executed[t]
                /\ wrote'[t] = wrote[t]
                /\ cache' = cache
                /\ th'[t].pc = "done"
                /\ th'[t].ret = PyBool(FALSE)]_vars
    /\ [](\A t \in Threads :
            EndedOnMissing(t) =>
                LET v == callbacks[t][Len(callbacks[t])].box_id
                IN  /\ Done(t)
                    /\ th[t].ret = PyBool(FALSE)
                    /\ ErrorsAt(t) = {Len(callbacks[t])}
                    /\ v \notin ExecutedBoxes(t)
                    /\ v \notin SeqToSet(wrote[t])
                    /\ CallbackBoxes(t) \cap LaterBoxes(OrderOf(t), v) = {}
                    /\ ExecutedBoxes(t) \cap LaterBoxes(OrderOf(t), v) = {})

\* C9 witness: a full run has ended on a missing upstream output after it
\* had executed and cached the source itself
C9_Witness ==
    \E t \in Threads :
        /\ EndedOnMissing(t)
        /\ Done(t)
        /\ executed[t] # << >>
        /\ wrote[t] # << >>

\* What C10 says of thread t, for a single run of a box among boxes
SinglePrecondition(t, boxes) ==
    (/\ IsSingle(t)
     /\ Done(t)
     /\ th[t].box_id \in boxes
     /\ th[t].box_id \notin get_all_cache_keys(cache)) =>
        /\ callbacks[t] = <<Callback(th[t].box_id, "running", None),
                            Callback(th[t].box_id, "error", NoCachedInputs)>>
        /\ th[t].ret = PyBool(FALSE)
        /\ executed[t] = << >>
        /\ wrote[t] = << >>

\* A step of a single run of a box that has no cache entry
SingleStepWithoutEntry(t) ==
    /\ IsSingle(t)
    /\ th[t].box_id \notin get_all_cache_keys(cache)
    /\ th'[t] # th[t]
    /\ th'[t].fn = th[t].fn

\* C10 as stated: for a box of the graph that has no cache entry,
\* run_single_box emits 'running' then 'error' with 'no cached inputs',
\* returns False, invokes no logic and leaves the cache unchanged.
C10_Original == \A t \in Threads : SinglePrecondition(t, Nodes(graph))

\* C10 amended: as stated, for a box of the graph that has logic and has no
\* cache entry (a box without logic gets 'Code not found' instead).
C10_SinglePrecondition ==
    /\ [](\A t \in Threads :
            SinglePrecondition(t, {b \in Nodes(graph) : CodeOf(b) # ""}))
    /\ [][\A t \in Threads : SingleStepWithoutEntry(t) => cache' = cache]_vars

\* C10 witness: a box with logic was run alone after its entry had been
\* cleared, and the run has failed
C10_Witness ==
    /\ IsSingle(1)
    /\ Done(1)
    /\ th[1].box_id \in Nodes(graph)
    /\ CodeOf(th[1].box_id) # ""
    /\ th[1].box_id \notin get_all_cache_keys(cache)
    /\ get_all_cache_keys(cache) # {}
    /\ th[1].ret = PyBool(FALSE)

\* ----------------------------------------------------------- single runs
\* Thread t is in, or has returned from, a single run of a box of the graph
\* that has logic and had a cache entry when the run began
SingleWithEntry(t) ==
    /\ IsSingle(t)
    /\ th[t].entry # None
    /\ HasNode(graph, th[t].box_id)
    /\ CodeOf(th[t].box_id) # ""

Succeeded(t) == Done(t) /\ th[t].ret = PyBool(TRUE)

\* C11: a single run of a box that has a cache entry (inputs I, output O)
\* invokes the box's logic once, with exactly I; when the logic succeeds the
\* callbacks are 'running' then 'success' with the new output O', the run
\* returns True and the entry is (inputs I, output O'); with logic that is
\* a function of its inputs O' = O and the entry is what it was.
C11_SingleRunSuccess ==
    \A t \in Threads :
        SingleWithEntry(t) =>
            LET b == th[t].box_id
                I == th[t].entry.inputs
            IN  /\ \A j \in 1..Len(executed[t]) :
                      executed[t][j] = [box_id |-> b, inputs |-> I]
                /\ Done(t) => Len(executed[t]) = 1
                /\ Succeeded(t) =>
                      /\ Trace(t) = <<(<<b, "running">>), (<<b, "success">>)>>
                      /\ b \in DOMAIN cache
                      /\ cache[b] = [output |-> callbacks[t][2].data, inputs |-> I]
                      /\ CodeOf(b) # "rand" => cache[b] = th[t].entry
                /\ (Done(t) /\ ~Succeeded(t)) =>
                      /\ Trace(t) = <<(<<b, "running">>), (<<b, "error">>)>>
                      /\ th[t].ret = PyBool(FALSE)
                      /\ b \in DOMAIN cache
                      /\ cache[b] = th[t].entry

\* C11 witness: a box that a full run had cached with a non-empty input was
\* run alone, succeeded, and its entry is what it was
C11_Witness ==
    /\ SingleWithEntry(1)
    /\ Succeeded(1)
    /\ CodeOf(th[1].box_id) = "ok"
    /\ "x" \in DOMAIN th[1].entry.inputs.items
    /\ cache[th[1].box_id] = th[1].entry

\* A step of a single run of thread t leaves every other box's entry alone
SingleStepFrame(t) ==
    (IsSingle(t)' /\ th'[t] # th[t]) =>
        /\ DOMAIN cache' \ {th'[t].box_id} = DOMAIN cache \ {th'[t].box_id}
        /\ \A b \in DOMAIN cache \ {th'[t].box_id} : cache'[b] = cache[b]

\* The sources of box_id's inputs whose cached output is not what box_id's
\* cached inputs hold for them
StaleSources(box_id) ==
    {p \in SeqToSet(InputSources(box_id)) :
        /\ p[2] \in DOMAIN cache
        /\ p[1] \in DOMAIN cache[box_id].inputs.items
        /\ cache[box_id].inputs.items[p[1]] # cache[p[2]].output}

RECURSIVE FullRunFrom(_, _, _)
FullRunFrom(o, i, r) ==
    IF i > Len(o) THEN [r EXCEPT !.ret = TRUE]
    ELSE LET b == o[i]
             cbs == Append(r.callbacks, Callback(b, "running", None))
             missing == {j \in 1..Len(InputSources(b)) :
                            InputSources(b)[j][2] \notin DOMAIN r.cache}
             input_data == Gathered(EmptyDict, InputSources(b), r.cache)
             res == execute_code(b, CodeOf(b), input_data, 0)
             Failed(data) == [r EXCEPT !.callbacks = Append(cbs, Callback(b, "error", data)),
                                       !.ret = FALSE]
         IN  IF CodeOf(b) = ""
             THEN Failed(ErrorData(<<"Code not found for ", b>>))
             ELSE IF missing # {}
             THEN LET j == CHOOSE k \in missing : \A m \in missing : k <= m
                  IN  Failed(MissingOutput(InputSources(b)[j][2], InputSources(b)[j][1]))
             ELSE IF ~res.success
             THEN Failed(Dict([message |-> res.error]))
             ELSE FullRunFrom(o, i + 1,
                     [r EXCEPT !.cache = update_cache(r.cache, b, res.output, input_data),
                               !.callbacks = Append(cbs, Callback(b, "success", res.output))])

FullRun(o) == FullRunFrom(o, 1, [cache |-> EmptyCache, callbacks |-> << >>, ret |-> FALSE])

Deterministic == \A b \in Nodes(graph) : CodeOf(b) # "rand"

\* C13: the callbacks, the return value and the final cache of a full run
\* are those of a run that began with an empty cache: with logic that is a
\* function of its inputs they are determined by the graph and the order,
\* and in every case the final cache holds entries of the boxes this run
\* cached and of no other.
C13_FullRunIgnoresPriorCache ==
    \A t \in Threads :
        (IsFull(t) /\ Done(t)) =>
            /\ DOMAIN cache = SeqToSet(wrote[t])
            /\ th[t].order = None =>
                  /\ callbacks[t] = << >>
                  /\ th[t].ret = PyBool(FALSE)
            /\ (th[t].order # None /\ Deterministic) =>
                  LET r == FullRun(OrderOf(t))
                  IN  /\ callbacks[t] = r.callbacks
                      /\ th[t].ret = PyBool(r.ret)
                      /\ cache = r.cache

\* C13 witness: the host had written an entry for a box before a full run
\* of two or more boxes, and the run has succeeded
C13_Witness ==
    /\ IsFull(1)
    /\ Succeeded(1)
    /\ host_writes > 0
    /\ Len(OrderOf(1)) >= 2
    /\ Deterministic
    /\ \E b \in DOMAIN cache : cache[b].output # HostOutput

\* ------------------------------------------------------------------ cache
\* The entries of every id but box_id are in c what they were in before
OthersKept(c, before, box_id) ==
    /\ DOMAIN c \ {box_id} = DOMAIN before \ {box_id}
    /\ \A b \in DOMAIN before \ {box_id} : c[b] = before[b]

\* C14: right after update_cache(id, out, in) with two mappings,
\* get_cached_output(id) is out and get_cached_inputs(id) is in, whatever
\* entry id had before, and every other id's entry is what it was.
C14_CacheRoundTrip ==
    (call.op = "update_cache" /\ IsDict(call.output_data) /\ IsDict(call.input_data)) =>
        /\ get_cached_output(cache, call.box_id) = call.output_data
        /\ get_cached_inputs(cache, call.box_id) = call.input_data
        /\ call.box_id \in get_all_cache_keys(cache)
        /\ OthersKept(cache, call.before, call.box_id)

\* C14 witness: an entry was replaced by one with another output and other
\* inputs while another id had an entry
C14_Witness ==
    /\ call.op = "update_cache"
    /\ IsDict(call.output_data)
    /\ IsDict(call.input_data)
    /\ call.output_data # call.input_data
    /\ call.box_id \in DOMAIN call.before
    /\ call.before[call.box_id].output # call.output_data
    /\ call.before[call.box_id].inputs # call.input_data
    /\ DOMAIN call.before \ {call.box_id} # {}

\* C15 as stated: clear_cache(id) with any string id removes that id's entry
\* if there is one and changes nothing else; clear_cache() leaves no key.
C15_Original ==
    call.op = "clear_cache" =>
        IF call.box_id = None
        THEN get_all_cache_keys(cache) = {}
        ELSE /\ call.box_id.s \notin DOMAIN cache
             /\ OthersKept(cache, call.before, call.box_id.s)

\* C16: update_cache with an output or inputs that is not a mapping changes
\* nothing in the cache: no entry appears, and the entry the id had stays.
C16_NonMappingIgnored ==
    (call.op = "update_cache" /\ (~IsDict(call.output_data) \/ ~IsDict(call.input_data))) =>
        /\ cache = call.before
        /\ call.ret = None

\* C16 witness: an id that had an entry was written with inputs that are not
\* a mapping and an output that is one
C16_Witness ==
    /\ call.op = "update_cache"
    /\ IsDict(call.output_data)
    /\ ~IsDict(call.input_data)
    /\ call.box_id \in DOMAIN call.before
    /\ call.before[call.box_id].output # call.output_data
    /\ cache = call.before

Found(v) == v # None

\* C17: every entry of the cache holds a mapping output and mapping inputs;
\* for every id the output is found iff the inputs are found iff the id is
\* among the keys; a lookup of an absent id returns None and changes nothing.
C17_EntriesComplete ==
    /\ \A b \in DOMAIN cache : IsDict(cache[b].output) /\ IsDict(cache[b].inputs)
    /\ \A b \in CacheIds :
          /\ Found(get_cached_output(cache, b)) <=> b \in get_all_cache_keys(cache)
          /\ Found(get_cached_inputs(cache, b)) <=> b \in get_all_cache_keys(cache)
    /\ (call.op \in {"get_cached_output", "get_cached_inputs"}
            /\ call.box_id \notin DOMAIN call.before) =>
          /\ call.ret = None
          /\ cache = call.before

\* C17 witness: the inputs of an absent id were looked up while other ids
\* had entries
C17_Witness ==
    /\ call.op = "get_cached_inputs"
    /\ call.box_id \notin DOMAIN call.before
    /\ call.before # EmptyCache
    /\ call.ret = None

\* --------------------------------------------------------------- executor
IsOutcome(r) == "success" \in DOMAIN r
Executed == call.op = "execute_code"

\* C18 as stated: execute_code returns an outcome for every logic and every
\* inputs, and whenever the logic did not return a value the outcome is
\* success=False with an error description.
C18_Original ==
    Executed =>
        /\ IsOutcome(call.ret)
        /\ call.logic.how # "returned" =>
              /\ call.ret.success = FALSE
              /\ call.ret.error # None

\* C19: an outcome execute_code returns is either success=True with a
\* mapping output and no error, or success=False with no output and an
\* error that is a non-empty text.
C19_OutcomeShape ==
    (Executed /\ IsOutcome(call.ret)) =>
        LET r == call.ret
        IN  IF r.success
            THEN IsDict(r.output) /\ r.error = None
            ELSE r.output = None /\ r.error.tag = "str" /\ r.error.parts # << >>

\* C19 witness: the logic returned a value that is not a mapping and is not
\* None, and the outcome is a failure
C19_Witness ==
    /\ Executed
    /\ IsOutcome(call.ret)
    /\ call.logic.how = "returned"
    /\ call.logic.value \notin {None}
    /\ ~IsDict(call.logic.value)
    /\ ~call.ret.success

\* C20: when the logic returns a value that is not a mapping the outcome is
\* a failure whose error names the type of the value; when it returns a
\* mapping the outcome is a success whose output is that mapping.
C20_ReturnedValue ==
    (Executed /\ call.logic.how = "returned") =>
        IF IsDict(call.logic.value)
        THEN call.ret = Outcome(TRUE, call.logic.value, None)
        ELSE /\ IsOutcome(call.ret)
             /\ call.ret.success = FALSE
             /\ \E j \in 1..Len(call.ret.error.parts) :
                   call.ret.error.parts[j] = ClassName(call.logic.value)

\* C20 witness: the logic returned a mapping computed from a non-empty input
C20_Witness ==
    /\ Executed
    /\ call.code_string = "ok"
    /\ "x" \in DOMAIN call.input_data.items
    /\ call.ret = Outcome(TRUE, Dict([n |-> PyInt(2)]), None)

\* ------------------------------------------------------------ build_graph
Built == graph # Unset
\* The definition holds a list of records for boxes and for connections
WellFormed ==
    /\ parsed_data \notin MalformedDefinitions
BoxList == parsed_data.boxes.items
ConnList == parsed_data.connections.items
\* The ids the boxes of the definition give to nodes
BoxIds == {GetStr(BoxList[j], "id") : j \in 1..Len(BoxList)} \ {""}
\* The connections, by position, that name a source, a target and an
\* input, with a source and a target that are boxes
ValidConns ==
    {j \in 1..Len(ConnList) :
        /\ GetStr(ConnList[j], "source") \in BoxIds
        /\ GetStr(ConnList[j], "target") \in BoxIds
        /\ GetStr(ConnList[j], "target_input") # ""}
ConnsTo(t, k) ==
    {j \in ValidConns : ConnList[j].target = t /\ ConnList[j].target_input = k}

\* C21: the graph built from a definition has a node for each box id and no
\* other node; its edges are the <<source, target>> of the connections that
\* name two boxes and an input, so both ends of every edge are nodes; a
\* connection that is not of that kind adds no edge, no node and no input
\* source, and the build returns the graph all the same.
C21_EdgesJoinNodes ==
    (Built /\ WellFormed) =>
        /\ IsGraph(graph)
        /\ Nodes(graph) = BoxIds
        /\ SeqToSet(graph.nodes) = BoxIds
        /\ \A u \in Nodes(graph) : SeqToSet(graph.succ[u]) \subseteq BoxIds
        /\ DOMAIN graph.succ = BoxIds
        /\ Edges(graph) = {<<ConnList[j].source, ConnList[j].target>> : j \in ValidConns}
        /\ \A t \in Nodes(graph) :
              /\ PairsKeys(InputSources(t)) =
                    {ConnList[j].target_input :
                        j \in {i \in ValidConns : ConnList[i].target = t}}
              /\ \A k \in PairsKeys(InputSources(t)) :
                    PairsValue(InputSources(t), k) \in BoxIds

\* C21 witness: a definition with two boxes, a connection between them and
\* a connection whose target names no box has been built
C21_Witness ==
    /\ Built
    /\ WellFormed
    /\ BoxIds = {"A", "B"}
    /\ Len(ConnList) = 2
    /\ ValidConns = {2}
    /\ GetStr(ConnList[1], "target") = UnknownId
    /\ GetStr(ConnList[1], "source") = "A"
    /\ Edges(graph) = {<<"A", "B">>}

\* C22: for every node t and input name k, the input source of (t, k) is
\* the source of the last connection, in the order of the definition, that
\* names two boxes and targets (t, k), whether or not t declares k; there is
\* none when no such connection targets (t, k).
C22_LastConnectionWins ==
    (Built /\ WellFormed) =>
        \A t \in Nodes(graph) : \A k \in {"x", "y"} :
            IF ConnsTo(t, k) = {}
            THEN k \notin PairsKeys(InputSources(t))
            ELSE LET last == CHOOSE j \in ConnsTo(t, k) : \A i \in ConnsTo(t, k) : i <= j
                 IN  /\ k \in PairsKeys(InputSources(t))
                     /\ PairsValue(InputSources(t), k) = ConnList[last].source

\* C22 witness: two connections with different sources target the same
\* input of the same box, an input the box does not declare
C22_Witness ==
    /\ Built
    /\ WellFormed
    /\ \E t \in Nodes(graph) :
          /\ ConnsTo(t, "y") = {1, 2}
          /\ ConnList[1].source # ConnList[2].source
          /\ "y" \notin SeqToSet(graph.data[t].inputs)
          /\ PairsValue(InputSources(t), "y") = ConnList[2].source

\* The graph after the boxes loop, before the connections are applied
AfterBoxes == AddBoxes(EmptyGraph, BoxList)
\* The last box of the definition with the id n
LastBox(n) ==
    BoxList[CHOOSE j \in 1..Len(BoxList) :
                /\ GetStr(BoxList[j], "id") = n
                /\ \A i \in 1..Len(BoxList) : GetStr(BoxList[i], "id") = n => i <= j]

\* C23 as stated: with several boxes of the same id the graph has one node
\* per distinct non-empty id, and before the connections are applied the
\* node carries the data of the last box with that id and empty input
\* sources.
C23_Original ==
    (Built /\ WellFormed) =>
        /\ IsGraph(graph)
        /\ Nodes(graph) = BoxIds
        /\ \A n \in BoxIds :
              AfterBoxes.data[n] = Updated(LastBox(n), [input_sources |-> << >>])

\* C24 as stated: build_graph never raises; for a definition that is absent
\* or malformed it returns None.
C24_Original ==
    Built =>
        /\ graph.tag # "raised"
        /\ ~WellFormed => graph = None

\* C25: a graph with no nodes has the empty sequence as its execution
\* order, not a failure; a full run on it clears the cache, issues no
\* callback, invokes no logic, writes nothing and returns True.
C25_EmptyGraphRun ==
    Nodes(graph) = {} =>
        /\ ExecutionOrders(graph) = {PyList(<< >>)}
        /\ IsFull(1) =>
              /\ cache = EmptyCache
              /\ callbacks[1] = << >>
              /\ executed[1] = << >>
              /\ wrote[1] = << >>
              /\ th[1].order \in {Unset, PyList(<< >>)}
              /\ Done(1) => th[1].ret = PyBool(TRUE)

\* C25 witness: a full run on the graph without nodes has returned, after
\* the host had written a cache entry
C25_Witness ==
    /\ Nodes(graph) = {}
    /\ IsFull(1)
    /\ Done(1)
    /\ host_writes = 1
    /\ th[1].order = PyList(<< >>)
    /\ cache = EmptyCache

\* The callbacks of thread t's run that report a missing upstream output
MissingUpstream(t) ==
    {j \in 1..Len(callbacks[t]) :
        /\ callbacks[t][j].status = "error"
        /\ callbacks[t][j].data.items.message.parts[1] =
              "Missing cached output from upstream box '"}

\* C29: in a full run with no other run interleaved no 'missing upstream
\* output' error is emitted: when the run gathers the inputs of a box,
\* every source of the box's input sources has a cached output, an output
\* that is an empty mapping included.
C29_UpstreamPresent ==
    IsFull(1) =>
        /\ MissingUpstream(1) = {}
        /\ th[1].pc \in {"rw_gather", "rw_exec"} =>
              /\ \A j \in 1..Len(InputSources(th[1].box_id)) :
                    get_cached_output(cache, InputSources(th[1].box_id)[j][2]) # None
              /\ \A j \in 1..Len(th[1].pending) :
                    get_cached_output(cache, th[1].pending[j][2]) # None

\* C29 witness: a box is about to run with an input bound to the empty
\* output mapping of its source
C29_Witness ==
    /\ IsFull(1)
    /\ th[1].pc = "rw_exec"
    /\ InputSources(th[1].box_id) # << >>
    /\ \E j \in 1..Len(InputSources(th[1].box_id)) :
          LET p == InputSources(th[1].box_id)[j] IN
          /\ get_cached_output(cache, p[2]) = EmptyDict
          /\ th[1].input_data.items[p[1]] = EmptyDict

\* Every box of the graph has logic that succeeds on any inputs
AllLogicSucceeds == \A n \in Nodes(graph) : CodeOf(n) \in {"ok", "empty", "rand"}

\* C26 as stated: two runs started by the host without waiting have their
\* cache reads, writes and clears serialized: a full run whose every box
\* logic succeeds, on an acyclic graph, emits no 'missing upstream output'
\* error and returns True, whatever the other run does meanwhile.
C26_Original ==
    \A t \in Threads :
        (IsFull(t) /\ AllLogicSucceeds /\ is_directed_acyclic_graph(graph)) =>
            /\ MissingUpstream(t) = {}
            /\ Done(t) => th[t].ret = PyBool(TRUE)

\* The number of times thread t's run has invoked the logic of box_id
TimesExecuted(t, box_id) ==
    Cardinality({j \in 1..Len(executed[t]) : executed[t][j].box_id = box_id})

\* What holds of a full run at every moment: each box's logic is invoked at
\* most once, there are no more invocations than nodes, the boxes invoked
\* are the first boxes of the execution order, nothing is invoked after a
\* failure, and the run has ended after its last box or at its first failure
C30_Bounded ==
    IsFull(1) =>
        LET o == OrderOf(1)
            n == Len(executed[1])
        IN  /\ \A b \in Nodes(graph) \cup {UnknownId} : TimesExecuted(1, b) <= 1
            /\ n <= Cardinality(Nodes(graph))
            /\ n <= Len(o)
            /\ \A j \in 1..n : executed[1][j].box_id = o[j]
            /\ ErrorsAt(1) # {} =>
                  /\ Done(1)
                  /\ ErrorsAt(1) = {Len(callbacks[1])}
                  /\ n <= (Len(callbacks[1]) \div 2)
            /\ Done(1) =>
                  \/ th[1].ret = PyBool(TRUE) /\ n = Len(o) /\ ErrorsAt(1) = {}
                  \/ th[1].ret = PyBool(FALSE) /\ ErrorsAt(1) # {}
                  \/ th[1].ret = PyBool(FALSE) /\ th[1].order = None /\ n = 0

\* C30: every full run terminates, given that a started run keeps being
\* scheduled and each invoked logic returns; each box's logic is invoked
\* at most once per run, the invocations are at most as many as the nodes,
\* a failed box is not retried, and the run ends after the last box or at
\* the first failure.
C30_FullRunTerminates ==
    /\ []C30_Bounded
    /\ (IsFull(1) /\ Running(1)) ~> (IsFull(1) /\ Done(1))

\* C30 witness: a full run over three boxes has ended at the failure of its
\* second box, with two invocations
C30_Witness ==
    /\ IsFull(1)
    /\ Done(1)
    /\ Len(OrderOf(1)) = 3
    /\ Len(executed[1]) = 2
    /\ th[1].ret = PyBool(FALSE)
    /\ callbacks[1][Len(callbacks[1])].box_id = OrderOf(1)[2]
    /\ callbacks[1][Len(callbacks[1])].status = "error"

\* -------------------------------------------------- parse_markdown_file
\* The lines of the file, as far as they were read
FileOf == parser.lines
Min(S) == CHOOSE x \in S : \A y \in S : x <= y
Max(S) == CHOOSE x \in S : \A y \in S : y <= x
\* The elements of a set of numbers in ascending order
RECURSIVE Ascending(_)
Ascending(S) == IF S = {} THEN << >> ELSE <<Min(S)>> \o Ascending(S \ {Min(S)})

\* parse_markdown_file has returned the data it parsed
ParsedWhole == parser.pc = "returned" /\ ~parser.failed

\* C27 as stated: when the file is missing or anything fails while the
\* file is read and parsed, parse_markdown_file does not raise and returns
\* the empty structure: no boxes, no connections, no layout.
C27_Original ==
    parser.failed =>
        /\ parsed_data.tag # "raised"
        /\ parsed_data = Parsed(<< >>, << >>, EmptyItems)

\* The positions of the BOX headers that have a name
NamedHeaders ==
    {j \in 1..Len(FileOf) : StartsWith(FileOf[j], "## BOX:") /\ box_name(FileOf[j]) # ""}
\* The lines of the box whose header is at j: those after j up to the next
\* line that begins with '##', or to the end of the file
BoxLines(j) ==
    (j + 1)..(Min({k \in (j + 1)..Len(FileOf) : StartsWith(FileOf[k], "##")}
                  \cup {Len(FileOf) + 1}) - 1)
\* Line i of the box at j lies after an opening fence that no closing
\* fence before i has closed
InFence(j, i) ==
    \E f \in BoxLines(j) :
        /\ f < i
        /\ FileOf[f] = FenceOpen
        /\ \A m \in (f + 1)..(i - 1) : FileOf[m] # FenceClose
\* The lines after the box's last opening fence, up to its closing fence
ExpectedCode(j) ==
    LET opens == {f \in BoxLines(j) : FileOf[f] = FenceOpen}
    IN  IF opens = {} THEN Text(<< >>)
        ELSE LET body == {i \in BoxLines(j) :
                             /\ i > Max(opens)
                             /\ InFence(j, i)
                             /\ FileOf[i] # FenceClose
                             /\ ~StartsWith(FileOf[i], "**Inputs:**")}
                 at == Ascending(body)
             IN  Joined([n \in 1..Len(at) |-> FileOf[at[n]]])
\* The names of the box's last Inputs line
ExpectedInputs(j) ==
    LET ins == {i \in BoxLines(j) : StartsWith(FileOf[i], "**Inputs:**")}
    IN  IF ins = {} THEN << >> ELSE cleaned_inputs(FileOf[Max(ins)])
\* The box's first line of text outside its fences
ExpectedDescription(j) ==
    LET texts == {i \in BoxLines(j) :
                     /\ FileOf[i] \notin {"", FenceOpen}
                     /\ ~StartsWith(FileOf[i], "**Inputs:**")
                     /\ ~InFence(j, i)}
    IN  IF texts = {} THEN "" ELSE FileOf[Min(texts)]
\* The positions of the connection lines of the CONNECTIONS sections
ConnectionLines ==
    {i \in 1..Len(FileOf) :
        /\ ConnectionMatch(FileOf[i]) # None
        /\ LET heads == {k \in 1..(i - 1) : StartsWith(FileOf[k], "##")}
           IN  heads # {} /\ FileOf[Max(heads)] = "## CONNECTIONS"}

\* C28: for a file that was read to its end, the parsed boxes are, in file
\* order, one record per BOX header with a name: its id is the name, its
\* inputs, description and code are those of the lines up to the next line
\* beginning with '##' or the end of the file, whichever header or end
\* closes the box; the parsed connections are, in file order, one record
\* per well-formed connection line of a CONNECTIONS section.
C28_BoxPerHeader ==
    ParsedWhole =>
        LET hs == Ascending(NamedHeaders)
            cs == Ascending(ConnectionLines)
        IN  /\ parsed_data.boxes =
                  PyList([n \in 1..Len(hs) |->
                            [id |-> box_name(FileOf[hs[n]]),
                             description |-> ExpectedDescription(hs[n]),
                             inputs |-> ExpectedInputs(hs[n]),
                             code |-> ExpectedCode(hs[n])]])
            /\ parsed_data.connections =
                  PyList([n \in 1..Len(cs) |-> ConnectionMatch(FileOf[cs[n]])])

\* C28 witness: a file with box A, closed by the CONNECTIONS header, one
\* connection line, and box B, closed by the end of the file, was parsed
C28_Witness ==
    /\ ParsedWhole
    /\ FileOf = <<"## BOX: A", "**Inputs:** x, y", "## CONNECTIONS",
                  "A.output -> B.x", "## BOX: B">>
    /\ Len(parsed_data.boxes.items) = 2
    /\ parsed_data.boxes.items[1].id = "A"
    /\ parsed_data.boxes.items[1].inputs = <<"x", "y">>
    /\ parsed_data.boxes.items[2].id = "B"
    /\ parsed_data.connections.items = <<Connection("A", "B", "x")>>

\* The boxes that have had a 'success' callback in thread t's run
SuccessBoxes(t) ==
    {callbacks[t][j].box_id :
        j \in {i \in 1..Len(callbacks[t]) : callbacks[t][i].status = "success"}}

\* C31 as stated: at every point of a full run, and after it has returned,
\* the cached ids are exactly the boxes that have had a 'success' callback
\* in the run.
C31_Original ==
    IsFull(1) => DOMAIN cache = SuccessBoxes(1)

\* C31: in a full run, and after it has returned, the cached ids are the
\* boxes that have had a 'success' callback in the run, and between the
\* update_cache of a box and its 'success' callback that box besides; a box
\* that failed or was not reached has no entry.
C31_CachedAreSucceeded ==
    IsFull(1) =>
        /\ DOMAIN cache =
              SuccessBoxes(1) \cup (IF th[1].pc = "rw_notify" THEN {th[1].box_id} ELSE {})
        /\ th[1].pc = "rw_notify" => th[1].box_id \notin SuccessBoxes(1)
        /\ \A j \in ErrorsAt(1) : callbacks[1][j].box_id \notin DOMAIN cache
        /\ Done(1) => DOMAIN cache = SuccessBoxes(1)

\* C31 witness: a full run over three boxes has ended at the failure of its
\* second box; only the first box is cached
C31_Witness ==
    /\ IsFull(1)
    /\ Done(1)
    /\ Len(OrderOf(1)) = 3
    /\ th[1].ret = PyBool(FALSE)
    /\ DOMAIN cache = {OrderOf(1)[1]}
    /\ "error" \in StatusesOf(1, OrderOf(1)[2])
    /\ StatusesOf(1, OrderOf(1)[3]) = {}

\* A step of a single run of thread t changes the cache only when it
\* writes the entry of a success
SingleWritesOnSuccess(t) ==
    (IsSingle(t)' /\ th'[t] # th[t] /\ cache' # cache) =>
        /\ th'[t].pc = "rs_notify"
        /\ th'[t].result.success

\* C32: a single run that ends in 'error' leaves the whole cache as it was:
\* no step of the run has changed it, the run has written nothing, and the
\* box has the entry it had when the run began, or none if it had none.
C32_FailedSingleKeepsCache ==
    /\ [][\A t \in Threads : SingleWritesOnSuccess(t)]_vars
    /\ [](\A t \in Threads :
            (IsSingle(t) /\ ErrorsAt(t) # {}) =>
                /\ Done(t)
                /\ th[t].ret = PyBool(FALSE)
                /\ wrote[t] = << >>
                /\ IF th[t].entry = None THEN th[t].box_id \notin DOMAIN cache
                   ELSE /\ th[t].box_id \in DOMAIN cache
                        /\ cache[th[t].box_id] = th[t].entry
                        /\ get_cached_output(cache, th[t].box_id) = th[t].entry.output
                        /\ get_cached_inputs(cache, th[t].box_id) = th[t].entry.inputs)

\* C32 witness: a single run of a box that had an entry has ended in 'error'
\* because its logic failed, and the entry is still there
C32_Witness ==
    /\ IsSingle(1)
    /\ Done(1)
    /\ th[1].entry # None
    /\ HasNode(graph, th[1].box_id)
    /\ CodeOf(th[1].box_id) = "raise"
    /\ Len(executed[1]) = 1
    /\ Trace(1) = <<(<<th[1].box_id, "running">>), (<<th[1].box_id, "error">>)>>
    /\ cache[th[1].box_id] = th[1].entry

\* The error callbacks of thread t's run that say the box has no code
CodeNotFound(t) ==
    {j \in ErrorsAt(t) :
        callbacks[t][j].data = ErrorData(<<"Code not found for ", callbacks[t][j].box_id>>)}

\* C34: a box whose code is empty is never handed to the executor: its run,
\* full or single, stops at the box with 'running' then the 'Code not found'
\* error and returns False, before the cache is read for the box's inputs;
\* a full run has no callback for a later box.
C34_NoCodeNoExecution ==
    \A t \in Threads :
        /\ \A j \in 1..Len(executed[t]) : CodeOf(executed[t][j].box_id) # ""
        /\ (Running(t) /\ th[t].pc \notin {"rw_order", "rw_loop", "rw_node", "rs_node"}) =>
              CodeOf(th[t].box_id) # ""
        /\ (~Running(t) /\ th[t].fn # "none" /\ HasNode(graph, th[t].box_id)
               /\ CodeOf(th[t].box_id) = "") =>
              LET cb == callbacks[t]
                  n == Len(cb)
              IN  /\ Done(t)
                  /\ th[t].ret = PyBool(FALSE)
                  /\ n >= 2
                  /\ cb[n - 1] = Callback(th[t].box_id, "running", None)
                  /\ cb[n] = Callback(th[t].box_id, "error",
                                      ErrorData(<<"Code not found for ", th[t].box_id>>))
                  /\ CodeNotFound(t) = {n}
                  /\ th[t].box_id \notin ExecutedBoxes(t)
                  /\ IsFull(t) =>
                        /\ CallbackBoxes(t) \cap LaterBoxes(OrderOf(t), th[t].box_id) = {}
                        /\ DOMAIN cache \cap LaterBoxes(OrderOf(t), th[t].box_id) = {}
                  /\ IsSingle(t) => n = 2

\* C34 witness: a full run over three boxes has stopped at its second box,
\* which has no code and an input fed by the first
C34_Witness ==
    /\ IsFull(1)
    /\ Done(1)
    /\ Len(OrderOf(1)) = 3
    /\ CodeOf(OrderOf(1)[2]) = ""
    /\ InputSources(OrderOf(1)[2]) # << >>
    /\ Trace(1) = << <<OrderOf(1)[1], "running">>, <<OrderOf(1)[1], "success">>,
                     <<OrderOf(1)[2], "running">>, <<OrderOf(1)[2], "error">> >>
    /\ CodeNotFound(1) = {4}
    /\ ExecutedBoxes(1) = {OrderOf(1)[1]}

\* The error callbacks of thread t's run that say there are no cached inputs
NoInputs(t) == {j \in ErrorsAt(t) : callbacks[t][j].data = NoCachedInputs}

\* C36: a box without incoming connections that a full run cached has the
\* empty mapping as its cached inputs; a single run of a box whose cached
\* inputs are the empty mapping invokes the logic with no arguments and
\* reports no 'no cached inputs' error; that error is reported exactly when
\* the box, of the graph and with code, has no entry.
C36_EmptyInputsArePresent ==
    /\ (IsFull(1) /\ Done(1)) =>
          \A b \in DOMAIN cache :
              InputSources(b) = << >> => get_cached_inputs(cache, b) = EmptyDict
    /\ \A t \in Threads :
          IsSingle(t) =>
              /\ NoInputs(t) # {} => th[t].entry = None
              /\ (Done(t) /\ HasNode(graph, th[t].box_id) /\ CodeOf(th[t].box_id) # "") =>
                    (NoInputs(t) # {} <=> th[t].entry = None)
              /\ (Done(t) /\ SingleWithEntry(t) /\ th[t].entry.inputs = EmptyDict) =>
                    /\ executed[t] = <<[box_id |-> th[t].box_id, inputs |-> EmptyDict]>>
                    /\ NoInputs(t) = {}

\* C36 witness: a box without incoming connections, cached by a full run
\* with the empty mapping as inputs, was run alone and succeeded
C36_Witness ==
    /\ SingleWithEntry(1)
    /\ Succeeded(1)
    /\ InputSources(th[1].box_id) = << >>
    /\ th[1].entry.inputs = EmptyDict
    /\ executed[1] = <<[box_id |-> th[1].box_id, inputs |-> EmptyDict]>>
    /\ NoInputs(1) = {}

\* The sources that the inputs of node v are mapped to
SourcesOf(v) ==
    {PairsValue(InputSources(v), k) : k \in PairsKeys(InputSources(v))}

\* C35 as stated: an edge u->v exists if and only if some input of v is
\* mapped to u
C35_Original ==
    (Built /\ WellFormed) =>
        \A u \in Nodes(graph), v \in Nodes(graph) :
            <<u, v>> \in Edges(graph) <=> u \in SourcesOf(v)

\* C35: every input source of a node has its edge, and every edge comes
\* from a connection between two boxes that names an input, whether or not
\* a later connection to the same input has replaced its mapping.
C35_EdgesPerConnection ==
    (Built /\ WellFormed) =>
        \A v \in Nodes(graph) :
            /\ \A u \in SourcesOf(v) : <<u, v>> \in Edges(graph)
            /\ \A u \in Nodes(graph) :
                  <<u, v>> \in Edges(graph) <=>
                      \E j \in ValidConns :
                          ConnList[j].source = u /\ ConnList[j].target = v
            /\ {u \in Nodes(graph) : <<u, v>> \in Edges(graph)} \ SourcesOf(v) =
                  {ConnList[j].source :
                      j \in {i \in ValidConns :
                                /\ ConnList[i].target = v
                                /\ ConnList[i].source \notin SourcesOf(v)}}

\* C35 witness: two connections feed the same input of one box from two
\* boxes; the input is mapped to the second source and both edges are there
C35_Witness ==
    /\ Built
    /\ WellFormed
    /\ BoxIds = {"A", "B"}
    /\ Len(ConnList) = 2
    /\ ValidConns = {1, 2}
    /\ ConnList[1].target = ConnList[2].target
    /\ ConnList[1].target_input = ConnList[2].target_input
    /\ ConnList[1].source # ConnList[2].source
    /\ SourcesOf(ConnList[1].target) = {ConnList[2].source}
    /\ <<ConnList[1].source, ConnList[1].target>> \in Edges(graph)
    /\ <<ConnList[2].source, ConnList[2].target>> \in Edges(graph)

\* The records the incoming connections of node v give
IncomingRecords(v) ==
    {[source_box |-> ConnList[j].source, target_input |-> ConnList[j].target_input] :
        j \in {i \in ValidConns : ConnList[i].target = v}}

\* C37 as stated: get_upstream_connections returns a record for each
\* incoming connection of the node, and the empty list only for an id that
\* is no node or a node without incoming edges
C37_Original ==
    call.op = "get_upstream_connections" =>
        LET v == call.box_id.s
            ret == call.ret.items
        IN  IF HasNode(graph, v)
            THEN /\ SeqToSet(ret) = IncomingRecords(v)
                 /\ ret = << >> <=> \A u \in Nodes(graph) : <<u, v>> \notin Edges(graph)
            ELSE ret = << >>

\* The parser, between the fences of a box's code, reads a line that is
\* not a fence
ReadsCodeLine(line) ==
    /\ parser.pc = "reading"
    /\ parser.current_section = "box"
    /\ parser.current_box # None
    /\ parser.in_code_block
    /\ ~StartsWith(line, FenceClose)
    /\ parser'.pc = "reading"
    /\ parser'.lines = Append(parser.lines, line)

\* C39 as stated: every line between the opening and the closing fence of
\* a box's code is appended to the code as it is and changes neither the
\* current section nor the current box, whatever it contains
C39_Original ==
    [][\A line \in FileLines :
          ReadsCodeLine(line) =>
              /\ parser'.code_buffer = Append(parser.code_buffer, line)
              /\ parser'.current_section = parser.current_section
              /\ parser'.current_box = parser.current_box
              /\ parser'.in_code_block
              /\ parser'.boxes = parser.boxes]_vars

\* C33 as stated: within a full run the entry of a box is written once and
\* no later step of the run, the execution of a later box included, changes
\* the output or the inputs cached for a box
C33_Original ==
    [][(IsFull(1) /\ Running(1)) =>
          /\ \A b \in DOMAIN cache \cap DOMAIN cache' : cache'[b] = cache[b]
          /\ \A i, j \in 1..Len(wrote'[1]) : wrote'[1][i] = wrote'[1][j] => i = j]_vars

\* The run of thread t, in progress or returned, was started on a graph
\* that is no longer the loaded one
OnOldGraph(t) == th[t].fn # "none" /\ th[t].graph # graph

\* C38 as stated: once a workflow has been loaded, the cache holds no entry
\* produced by a run on the graph loaded before it, also when that run was
\* in progress at the time of the load
C38_Original ==
    (call.op = "load_workflow" /\ OnOldGraph(1)) => cache = EmptyCache

====
